---- MODULE Spec2Model ----
(***************************************************************************)
(* SlideCraft: the sliding-puzzle engine (shared/src/game), the attempt    *)
(* state manager, and the server-side solution submission flow.            *)
(*                                                                         *)
(* The specifications share the variables below:                          *)
(*   Spec        one attempt played through createGameState / applyMove /  *)
(*               resetGameState while the wall clock advances;             *)
(*   SpecDest    calculateDestination applied to enumerated inputs;        *)
(*   SpecSubmit  POST /api/solution requests whose database steps          *)
(*               interleave;                                               *)
(*   SpecValidate one POST /api/solution request over every short move     *)
(*               list;                                                     *)
(*   SpecCounted requests of one player for two puzzles, interleaved;      *)
(*   SpecField   calculateDestination on boards with one force field;      *)
(*   SpecDestSizes calculateDestination for off-board movers and for       *)
(*               boards of other sides;                                    *)
(*   SpecWin     checkWin applied to enumerated inputs;                    *)
(*   SpecRating  calculateStarRating applied to enumerated inputs;         *)
(*   SpecHeap    two attempts on one puzzle, with the objects of the       *)
(*               engine as cells of a heap, so that sharing and in-place   *)
(*               edits are visible;                                        *)
(*   SpecClient  the controller useGame under clicks and key presses;      *)
(*   SpecPlayers getOrCreatePlayer calls whose queries interleave with     *)
(*               each other and with updatePlayerStats calls;              *)
(*   SpecPuzzles createPuzzle calls and seed runs on one database;         *)
(*   SpecShare   the share text of the results screen, character by        *)
(*               character.                                                *)
(***************************************************************************)
EXTENDS Integers, Sequences, FiniteSets, TLC

VARIABLES
    state,      \* the current GameState of the attempt
    last,       \* the last engine call: operation, arguments, input state
    now,        \* Date.now(), in milliseconds
    dcall,      \* the last calculateDestination call: arguments and result
    players,    \* table players: set of rows
    solutions,  \* table solutions: set of rows
    reqs,       \* POST /api/solution requests, by arrival number
    workload,   \* which requests the clients may send
    puzzles,    \* table puzzles: set of rows, where createPuzzle and seed run
    pcall,      \* the last checkWin or calculateStarRating call, or the
                \* updatePlayerStats calls made so far
    heap,       \* the objects of the engine, by address
    cur,        \* per attempt: the address of its current GameState, the moves
                \* asked of it since its creation or reset, whether it was edited
    hlast,      \* the last call on the heap: operation, attempt, snapshots
    ui          \* the client controller useGame: React state, what the
                \* handlers of the last commit captured, queued updates

gameVars   == <<state, last, now>>
destVars   == <<dcall>>
serverVars == <<players, solutions, reqs, workload, puzzles>>
pureVars   == <<pcall>>
heapVars   == <<heap, cur, hlast>>
clientVars == <<ui>>
vars       == <<state, last, now, dcall, players, solutions, reqs, workload, puzzles,
               pcall, heap, cur, hlast, ui>>

----------------------------------------------------------------------------
(* Bounds of the model *)

MaxMoves == 2        \* longest move list explored in Spec
MaxTicks == 1        \* clock advances explored in Spec
TickMs == 1200       \* milliseconds per clock advance
DestBoardSize == 3   \* board side enumerated exhaustively in SpecDest
NumReqs == 2         \* concurrent requests in SpecSubmit
MaxSubmitLen == 2    \* longest submitted move list in SpecValidate
WinBoardSize == 2    \* board side enumerated in SpecWin
MaxRatingMoves == 12 \* largest move count and optimum in SpecRating
MaxHeapCalls == 2    \* calls and in-place edits explored in SpecHeap
MaxClientEvents == 4 \* clicks and key presses that queue an update in SpecClient
NumPlayerCalls == 2  \* getOrCreatePlayer calls in SpecPlayers
NumPuzzleCalls == 3  \* createPuzzle calls and seed runs in SpecPuzzles
MaxShareMoves == 10  \* largest moveCount shown in SpecShare
MaxShareSeconds == 125 \* largest timeSeconds shown in SpecShare
MaxStatsCalls == 3   \* updatePlayerStats calls in SpecPlayers

----------------------------------------------------------------------------
(* Types: shared/src/types/game.ts *)

BoardSize == 16

ShipColors == {"red", "blue", "green", "yellow"}

Directions == {"up", "down", "left", "right"}

Pos(px, py) == [x |-> px, y |-> py]

Ship(c, px, py) == [color |-> c, position |-> Pos(px, py)]

Asteroid(px, py) == [type |-> "asteroid", position |-> Pos(px, py)]

ForceField(px, py, e) == [type |-> "forceField", position |-> Pos(px, py), edge |-> e]

\* completionTime?: number -- absent/undefined is the empty sequence
Undefined == <<>>

Defined(v) == <<v>>

----------------------------------------------------------------------------
(* Geometry / collision resolver: shared/src/game/movement.ts *)

DIRECTION_VECTORS ==
    [up    |-> Pos(0, -1),
     down  |-> Pos(0, 1),
     left  |-> Pos(-1, 0),
     right |-> Pos(1, 0)]

\* variant: the upper bound is compared with <= instead of <
isInBounds_offByOne(pos, boardSize) ==
    pos.x >= 0 /\ pos.x <= boardSize /\ pos.y >= 0 /\ pos.y <= boardSize

isInBounds(pos, boardSize) ==
    pos.x >= 0 /\ pos.x < boardSize /\ pos.y >= 0 /\ pos.y < boardSize

\* variant: the second comparison reads the asteroid's x again
isAsteroid_typo(pos, obstacles) ==
    \E i \in 1..Len(obstacles) :
        /\ obstacles[i].type = "asteroid"
        /\ obstacles[i].position.x = pos.x
        /\ obstacles[i].position.x = pos.y

isAsteroid(pos, obstacles) ==
    \E i \in 1..Len(obstacles) :
        /\ obstacles[i].type = "asteroid"
        /\ obstacles[i].position.x = pos.x
        /\ obstacles[i].position.y = pos.y

isOccupiedByShip(pos, ships, excludeShip) ==
    \E i \in 1..Len(ships) :
        /\ ships[i].color # excludeShip.color
        /\ ships[i].position.x = pos.x
        /\ ships[i].position.y = pos.y

oppositeDirection ==
    [up |-> "down", down |-> "up", left |-> "right", right |-> "left"]

\* variant: only the field declared on the cell being left is looked at
isBlockedByForceField_exitOnly(from, to, direction, obstacles) ==
    \E i \in 1..Len(obstacles) :
        /\ obstacles[i].type = "forceField"
        /\ obstacles[i].position.x = from.x
        /\ obstacles[i].position.y = from.y
        /\ obstacles[i].edge = direction

\* variant: only the field declared on the cell being entered is looked at
isBlockedByForceField_entryOnly(from, to, direction, obstacles) ==
    \E i \in 1..Len(obstacles) :
        /\ obstacles[i].type = "forceField"
        /\ obstacles[i].position.x = to.x
        /\ obstacles[i].position.y = to.y
        /\ obstacles[i].edge = oppositeDirection[direction]

\* variant: a field on the cell being left blocks whatever its edge
isBlockedByForceField_anyEdge(from, to, direction, obstacles) ==
    LET exitBlocked ==
            \E i \in 1..Len(obstacles) :
                /\ obstacles[i].type = "forceField"
                /\ obstacles[i].position.x = from.x
                /\ obstacles[i].position.y = from.y
        entryBlocked ==
            \E i \in 1..Len(obstacles) :
                /\ obstacles[i].type = "forceField"
                /\ obstacles[i].position.x = to.x
                /\ obstacles[i].position.y = to.y
                /\ obstacles[i].edge = oppositeDirection[direction]
    IN  exitBlocked \/ entryBlocked

isBlockedByForceField(from, to, direction, obstacles) ==
    LET exitBlocked ==
            \E i \in 1..Len(obstacles) :
                /\ obstacles[i].type = "forceField"
                /\ obstacles[i].position.x = from.x
                /\ obstacles[i].position.y = from.y
                /\ obstacles[i].edge = direction
        entryBlocked ==
            \E i \in 1..Len(obstacles) :
                /\ obstacles[i].type = "forceField"
                /\ obstacles[i].position.x = to.x
                /\ obstacles[i].position.y = to.y
                /\ obstacles[i].edge = oppositeDirection[direction]
    IN  exitBlocked \/ entryBlocked

\* variant: the step is taken before the bounds check breaks the loop
RECURSIVE slideLoop_overshoot(_, _, _, _, _, _)
slideLoop_overshoot(current, ship, direction, ships, obstacles, boardSize) ==
    LET vector == DIRECTION_VECTORS[direction]
        next   == Pos(current.x + vector.x, current.y + vector.y)
    IN  IF ~isInBounds(next, boardSize) THEN next
        ELSE IF isAsteroid(next, obstacles) THEN current
        ELSE IF isOccupiedByShip(next, ships, ship) THEN current
        ELSE IF isBlockedByForceField(current, next, direction, obstacles) THEN current
        ELSE slideLoop_overshoot(next, ship, direction, ships, obstacles, boardSize)

\* The body of the while (true) loop: one iteration from `current`.
RECURSIVE slideLoop(_, _, _, _, _, _)
slideLoop(current, ship, direction, ships, obstacles, boardSize) ==
    LET vector == DIRECTION_VECTORS[direction]
        next   == Pos(current.x + vector.x, current.y + vector.y)
    IN  IF ~isInBounds(next, boardSize) THEN current
        ELSE IF isAsteroid(next, obstacles) THEN current
        ELSE IF isOccupiedByShip(next, ships, ship) THEN current
        ELSE IF isBlockedByForceField(current, next, direction, obstacles) THEN current
        ELSE slideLoop(next, ship, direction, ships, obstacles, boardSize)

calculateDestination(ship, direction, ships, obstacles, boardSize) ==
    slideLoop(ship.position, ship, direction, ships, obstacles, boardSize)

\* How many times the body of the while (true) loop runs from `current`,
\* the iteration that breaks included.
RECURSIVE slideIterations(_, _, _, _, _, _)
slideIterations(current, ship, direction, ships, obstacles, boardSize) ==
    LET vector == DIRECTION_VECTORS[direction]
        next   == Pos(current.x + vector.x, current.y + vector.y)
    IN  IF ~isInBounds(next, boardSize) THEN 1
        ELSE IF isAsteroid(next, obstacles) THEN 1
        ELSE IF isOccupiedByShip(next, ships, ship) THEN 1
        ELSE IF isBlockedByForceField(current, next, direction, obstacles) THEN 1
        ELSE 1 + slideIterations(next, ship, direction, ships, obstacles, boardSize)

----------------------------------------------------------------------------
(* Game state manager and win oracle: shared/src/game/state.ts *)

\* Array.prototype.findIndex on colour, 1-based; 0 stands for -1.
findIndex(ships, color) ==
    IF \E i \in 1..Len(ships) : ships[i].color = color
    THEN CHOOSE i \in 1..Len(ships) :
            /\ ships[i].color = color
            /\ \A j \in 1..(i - 1) : ships[j].color # color
    ELSE 0

checkWin_anyShip(ships, astronaut) ==
    \E i \in 1..Len(ships) :
        /\ ships[i].position.x = astronaut.x
        /\ ships[i].position.y = astronaut.y

checkWin(ships, astronaut) ==
    LET redIndex == findIndex(ships, "red")
    IN  IF redIndex = 0 THEN FALSE
        ELSE /\ ships[redIndex].position.x = astronaut.x
             /\ ships[redIndex].position.y = astronaut.y

createGameState(puzzle, dateNow) ==
    [puzzle         |-> puzzle,
     ships          |-> [i \in 1..Len(puzzle.ships) |->
                            [color    |-> puzzle.ships[i].color,
                             position |-> Pos(puzzle.ships[i].position.x,
                                              puzzle.ships[i].position.y)]],
     moves          |-> <<>>,
     moveCount      |-> 0,
     startTime      |-> dateNow,
     completed      |-> FALSE,
     completionTime |-> Undefined]

\* lines 55-69 of applyMove: the state after the ship at shipIndex moved
\* variant: the new move is put in front of the earlier ones
movedState_prependsMove(st, shipIndex, shipColor, direction, newPosition, dateNow) ==
    LET newShips == [i \in 1..Len(st.ships) |->
                        IF i = shipIndex
                        THEN [st.ships[i] EXCEPT !.position = newPosition]
                        ELSE st.ships[i]]
        newMove  == [ship |-> shipColor, direction |-> direction]
        isWin    == checkWin(newShips, st.puzzle.astronaut)
    IN  [st EXCEPT
            !.ships          = newShips,
            !.moves          = <<newMove>> \o st.moves,
            !.moveCount      = st.moveCount + 1,
            !.completed      = isWin,
            !.completionTime = IF isWin
                               THEN Defined((dateNow - st.startTime) \div 1000)
                               ELSE Undefined]

\* variant: the move is recorded but the counter is not advanced
movedState_keepsCount(st, shipIndex, shipColor, direction, newPosition, dateNow) ==
    LET newShips == [i \in 1..Len(st.ships) |->
                        IF i = shipIndex
                        THEN [st.ships[i] EXCEPT !.position = newPosition]
                        ELSE st.ships[i]]
        newMove  == [ship |-> shipColor, direction |-> direction]
        isWin    == checkWin(newShips, st.puzzle.astronaut)
    IN  [st EXCEPT
            !.ships          = newShips,
            !.moves          = Append(st.moves, newMove),
            !.completed      = isWin,
            !.completionTime = IF isWin
                               THEN Defined((dateNow - st.startTime) \div 1000)
                               ELSE Undefined]

\* variant: the elapsed time is kept in milliseconds
movedState_timeInMs(st, shipIndex, shipColor, direction, newPosition, dateNow) ==
    LET newShips == [i \in 1..Len(st.ships) |->
                        IF i = shipIndex
                        THEN [st.ships[i] EXCEPT !.position = newPosition]
                        ELSE st.ships[i]]
        newMove  == [ship |-> shipColor, direction |-> direction]
        isWin    == checkWin(newShips, st.puzzle.astronaut)
    IN  [st EXCEPT
            !.ships          = newShips,
            !.moves          = Append(st.moves, newMove),
            !.moveCount      = st.moveCount + 1,
            !.completed      = isWin,
            !.completionTime = IF isWin
                               THEN Defined(dateNow - st.startTime)
                               ELSE Undefined]

movedState(st, shipIndex, shipColor, direction, newPosition, dateNow) ==
    LET newShips == [i \in 1..Len(st.ships) |->
                        IF i = shipIndex
                        THEN [st.ships[i] EXCEPT !.position = newPosition]
                        ELSE st.ships[i]]
        newMove  == [ship |-> shipColor, direction |-> direction]
        isWin    == checkWin(newShips, st.puzzle.astronaut)
    IN  [st EXCEPT
            !.ships          = newShips,
            !.moves          = Append(st.moves, newMove),
            !.moveCount      = st.moveCount + 1,
            !.completed      = isWin,
            !.completionTime = IF isWin
                               THEN Defined((dateNow - st.startTime) \div 1000)
                               ELSE Undefined]

\* variant: the "ship didn't move" early return is missing
applyMove_countsBlocked(st, shipColor, direction, dateNow) ==
    LET shipIndex == findIndex(st.ships, shipColor)
    IN  IF shipIndex = 0 THEN st
        ELSE movedState(st, shipIndex, shipColor, direction,
                        calculateDestination(st.ships[shipIndex], direction, st.ships,
                                             st.puzzle.obstacles, BoardSize),
                        dateNow)

\* variant: a move for a colour that is not on the board is still recorded
applyMove_recordsUnknown(st, shipColor, direction, dateNow) ==
    LET shipIndex == findIndex(st.ships, shipColor)
    IN  IF shipIndex = 0
        THEN [st EXCEPT !.moves = Append(st.moves, [ship |-> shipColor,
                                                    direction |-> direction]),
                        !.moveCount = st.moveCount + 1]
        ELSE
        LET ship        == st.ships[shipIndex]
            newPosition == calculateDestination(ship, direction, st.ships,
                                                st.puzzle.obstacles, BoardSize)
        IN  IF newPosition.x = ship.position.x /\ newPosition.y = ship.position.y
            THEN st
            ELSE movedState(st, shipIndex, shipColor, direction, newPosition, dateNow)

\* variant: a colour that is not found falls back on the last ship of the list
applyMove_unknownMovesLast(st, shipColor, direction, dateNow) ==
    LET found     == findIndex(st.ships, shipColor)
        shipIndex == IF found = 0 THEN Len(st.ships) ELSE found
    IN  IF shipIndex = 0 THEN st
        ELSE
        LET ship        == st.ships[shipIndex]
            newPosition == calculateDestination(ship, direction, st.ships,
                                                st.puzzle.obstacles, BoardSize)
        IN  IF newPosition.x = ship.position.x /\ newPosition.y = ship.position.y
            THEN st
            ELSE movedState(st, shipIndex, ship.color, direction, newPosition, dateNow)

applyMove(st, shipColor, direction, dateNow) ==
    LET shipIndex == findIndex(st.ships, shipColor)
    IN  IF shipIndex = 0 THEN st
        ELSE
        LET ship        == st.ships[shipIndex]
            newPosition == calculateDestination(ship, direction, st.ships,
                                                st.puzzle.obstacles, BoardSize)
        IN  IF newPosition.x = ship.position.x /\ newPosition.y = ship.position.y
            THEN st
            ELSE movedState(st, shipIndex, shipColor, direction, newPosition, dateNow)

\* variant: the move counter survives a reset
resetGameState_keepsCount(st) ==
    [st EXCEPT
        !.ships          = [i \in 1..Len(st.puzzle.ships) |->
                               [color    |-> st.puzzle.ships[i].color,
                                position |-> st.puzzle.ships[i].position]],
        !.moves          = <<>>,
        !.completed      = FALSE,
        !.completionTime = Undefined]

\* variant: the recorded moves survive the reset
resetGameState_keepsMoves(st) ==
    [st EXCEPT !.ships = st.puzzle.ships,
               !.moveCount = 0,
               !.completed = FALSE,
               !.completionTime = Undefined]

\* variant: the ships are left where they are
resetGameState_keepsShips(st) ==
    [st EXCEPT
        !.moves          = <<>>,
        !.moveCount      = 0,
        !.completed      = FALSE,
        !.completionTime = Undefined]

resetGameState(st) ==
    [st EXCEPT
        !.ships          = [i \in 1..Len(st.puzzle.ships) |->
                               [color    |-> st.puzzle.ships[i].color,
                                position |-> st.puzzle.ships[i].position]],
        !.moves          = <<>>,
        !.moveCount      = 0,
        !.completed      = FALSE,
        !.completionTime = Undefined]

----------------------------------------------------------------------------
(* Puzzles *)

\* createTestPuzzle of state.test.ts
TestPuzzle ==
    [id |-> 1, date |-> "2025-01-01",
     ships |-> <<Ship("red", 0, 0), Ship("blue", 5, 5),
                 Ship("green", 10, 10), Ship("yellow", 15, 15)>>,
     obstacles |-> <<>>,
     astronaut |-> Pos(15, 0),
     optimalMoves |-> 1]

\* the puzzle seeded by server/src/db/seed.ts
SeedPuzzle ==
    [id |-> 2, date |-> "today",
     ships |-> <<Ship("red", 2, 2), Ship("blue", 8, 5),
                 Ship("green", 12, 10), Ship("yellow", 5, 14)>>,
     obstacles |-> <<Asteroid(5, 2), Asteroid(10, 8), Asteroid(3, 12),
                     ForceField(7, 5, "right"), ForceField(14, 2, "down")>>,
     astronaut |-> Pos(14, 2),
     optimalMoves |-> 3]

\* two ships only; every kind of immediate block next to the red ship:
\* board edge above, asteroid to the left, force field below, ship to the right
BlockedPuzzle ==
    [id |-> 3, date |-> "2025-01-03",
     ships |-> <<Ship("red", 1, 0), Ship("blue", 2, 0)>>,
     obstacles |-> <<Asteroid(0, 0), ForceField(1, 1, "up"), Asteroid(9, 4)>>,
     astronaut |-> Pos(1, 15),
     optimalMoves |-> 3]

\* the red ship starts on the astronaut cell
SolvedAtStartPuzzle ==
    [id |-> 4, date |-> "2025-01-04",
     ships |-> <<Ship("blue", 3, 7), Ship("red", 6, 7)>>,
     obstacles |-> <<ForceField(6, 7, "right")>>,
     astronaut |-> Pos(6, 7),
     optimalMoves |-> 0]

\* malformed layout: two ships share a cell and one sits on an asteroid
MalformedPuzzle ==
    [id |-> 5, date |-> "2025-01-05",
     ships |-> <<Ship("red", 4, 4), Ship("green", 4, 4), Ship("blue", 8, 4)>>,
     obstacles |-> <<Asteroid(8, 4)>>,
     astronaut |-> Pos(0, 4),
     optimalMoves |-> 1]

Puzzles == {TestPuzzle, SeedPuzzle, BlockedPuzzle, SolvedAtStartPuzzle, MalformedPuzzle}

----------------------------------------------------------------------------
(* Idle values of the parts a specification does not exercise *)

NoCall ==
    [ship |-> Ship("red", 0, 0), direction |-> "up", ships |-> <<>>,
     obstacles |-> <<>>, boardSize |-> BoardSize, ret |-> Undefined]

NoEngineCall(st) ==
    [op |-> "createGameState", ship |-> "red", direction |-> "up", before |-> st]

NoPureCall == [fn |-> "none"]

NoHeapCall == [op |-> "none"]

PureIdle == pcall = NoPureCall

HeapIdle ==
    /\ heap = <<>>
    /\ cur = <<>>
    /\ hlast = NoHeapCall

\* useGame is not mounted
ClientIdle == ui = [mounted |-> FALSE]

----------------------------------------------------------------------------
(* Spec: one attempt, driven as the session layer drives the engine *)

GameIdle ==
    /\ now = 1
    /\ state = createGameState(TestPuzzle, now)
    /\ last = NoEngineCall(state)

InitGame ==
    /\ now = 1
    /\ \E puzzle \in Puzzles : state = createGameState(puzzle, now)
    /\ last = NoEngineCall(state)

\* state = applyMove(state, shipColor, direction)
ApplyMove ==
    \E shipColor \in ShipColors, direction \in Directions :
        /\ state.moveCount < MaxMoves
        /\ state' = applyMove(state, shipColor, direction, now)
        /\ last' = [op |-> "applyMove", ship |-> shipColor,
                    direction |-> direction, before |-> state]
        /\ UNCHANGED <<now, destVars, serverVars, pureVars, heapVars, clientVars>>

\* state = resetGameState(state)
Reset ==
    /\ state' = resetGameState(state)
    /\ last' = [op |-> "reset", ship |-> "red", direction |-> "up", before |-> state]
    /\ UNCHANGED <<now, destVars, serverVars, pureVars, heapVars, clientVars>>

\* the wall clock advances between calls
Tick ==
    /\ now < 1 + MaxTicks * TickMs
    /\ now' = now + TickMs
    /\ UNCHANGED <<state, last, destVars, serverVars, pureVars, heapVars, clientVars>>

----------------------------------------------------------------------------
(* SpecDest: calculateDestination on enumerated inputs *)

Cells(n) == {Pos(px, py) : px \in 0..(n - 1), py \in 0..(n - 1)}

\* the mover is red; at most one other ship, one asteroid and one force field
InitDest ==
    \E p \in Cells(DestBoardSize), d \in Directions,
       others \in {<<>>} \cup {<<[color |-> "blue", position |-> q]>> :
                                   q \in Cells(DestBoardSize)},
       asts \in {<<>>} \cup {<<[type |-> "asteroid", position |-> q]>> :
                                   q \in Cells(DestBoardSize)},
       ffs \in {<<>>} \cup {<<[type |-> "forceField", position |-> q, edge |-> e]>> :
                                   q \in Cells(DestBoardSize), e \in Directions} :
        dcall = [ship      |-> [color |-> "red", position |-> p],
                 direction |-> d,
                 ships     |-> <<[color |-> "red", position |-> p]>> \o others,
                 obstacles |-> asts \o ffs,
                 boardSize |-> DestBoardSize,
                 ret       |-> Undefined]

CallCalculateDestination ==
    /\ dcall.ret = Undefined
    /\ dcall.ships # <<>>
    /\ dcall' = [dcall EXCEPT !.ret =
                    Defined(calculateDestination(dcall.ship, dcall.direction,
                                dcall.ships, dcall.obstacles, dcall.boardSize))]
    /\ UNCHANGED <<gameVars, serverVars, pureVars, heapVars, clientVars>>

\* the mover alone with at most one asteroid and one force field
InitField ==
    \E p \in Cells(DestBoardSize), d \in Directions,
       asts \in {<<>>} \cup {<<[type |-> "asteroid", position |-> q]>> :
                                   q \in Cells(DestBoardSize)},
       ffs \in {<<>>} \cup {<<[type |-> "forceField", position |-> q, edge |-> e]>> :
                                   q \in Cells(DestBoardSize), e \in Directions} :
        dcall = [ship      |-> [color |-> "red", position |-> p],
                 direction |-> d,
                 ships     |-> <<[color |-> "red", position |-> p]>>,
                 obstacles |-> asts \o ffs,
                 boardSize |-> DestBoardSize,
                 ret       |-> Undefined]

\* the cells of the one-cell ring around the board
OffCells(n) == {Pos(px, py) : px \in (0 - 1)..n, py \in (0 - 1)..n} \ Cells(n)

\* a mover that starts off the board
InitDestOff ==
    \E p \in OffCells(DestBoardSize), d \in Directions,
       asts \in {<<>>} \cup {<<[type |-> "asteroid", position |-> q]>> :
                                   q \in Cells(DestBoardSize)} :
        dcall = [ship      |-> [color |-> "red", position |-> p],
                 direction |-> d,
                 ships     |-> <<[color |-> "red", position |-> p]>>,
                 obstacles |-> asts,
                 boardSize |-> DestBoardSize,
                 ret       |-> Undefined]

\* boards of every side up to DestBoardSize and of the default side; the other
\* ship and the asteroid may lie outside the smaller boards
InitDestSized ==
    \E boardSize \in 1..DestBoardSize \cup {BoardSize} :
    \E p \in Cells(boardSize), d \in Directions,
       others \in {<<>>} \cup {<<[color |-> "blue", position |-> q]>> :
                                   q \in Cells(DestBoardSize)},
       asts \in {<<>>} \cup {<<[type |-> "asteroid", position |-> q]>> :
                                   q \in Cells(DestBoardSize)} :
        dcall = [ship      |-> [color |-> "red", position |-> p],
                 direction |-> d,
                 ships     |-> <<[color |-> "red", position |-> p]>> \o others,
                 obstacles |-> asts,
                 boardSize |-> boardSize,
                 ret       |-> Undefined]

----------------------------------------------------------------------------
(* Scoring: shared/src/types/game.ts *)

calculateStarRating_strict(moves, optimal) ==
    LET diff == moves - optimal
    IN  IF diff = 0 THEN 5
        ELSE IF diff = 1 THEN 4
        ELSE IF diff < 3 THEN 3
        ELSE IF diff < 5 THEN 2
        ELSE 1

calculateStarRating(moves, optimal) ==
    LET diff == moves - optimal
    IN  IF diff = 0 THEN 5
        ELSE IF diff = 1 THEN 4
        ELSE IF diff <= 3 THEN 3
        ELSE IF diff <= 5 THEN 2
        ELSE 1

----------------------------------------------------------------------------
(* SpecWin, SpecRating: checkWin and calculateStarRating on enumerated inputs *)

\* a ship list with or without a red ship and a blue ship, in either order
InitWin ==
    \E reds \in {<<>>} \cup {<<[color |-> "red", position |-> q]>> :
                                 q \in Cells(WinBoardSize)},
       blues \in {<<>>} \cup {<<[color |-> "blue", position |-> q]>> :
                                 q \in Cells(WinBoardSize)},
       redFirst \in BOOLEAN, astronaut \in Cells(WinBoardSize) :
        pcall = [fn        |-> "checkWin",
                 ships     |-> IF redFirst THEN reds \o blues ELSE blues \o reds,
                 astronaut |-> astronaut,
                 ret       |-> Undefined]

CallCheckWin ==
    /\ pcall.fn = "checkWin"
    /\ pcall.ret = Undefined
    /\ pcall' = [pcall EXCEPT !.ret = Defined(checkWin(pcall.ships, pcall.astronaut))]
    /\ UNCHANGED <<gameVars, destVars, serverVars, heapVars, clientVars>>

InitRating ==
    \E moves \in 0..MaxRatingMoves, optimal \in 0..MaxRatingMoves :
        pcall = [fn      |-> "calculateStarRating",
                 moves   |-> moves,
                 optimal |-> optimal,
                 ret     |-> Undefined]

CallCalculateStarRating ==
    /\ pcall.fn = "calculateStarRating"
    /\ pcall.ret = Undefined
    /\ pcall' = [pcall EXCEPT !.ret =
                    Defined(calculateStarRating(pcall.moves, pcall.optimal))]
    /\ UNCHANGED <<gameVars, destVars, serverVars, heapVars, clientVars>>

----------------------------------------------------------------------------
(* Persistence: migrations/001_initial_schema.sql and the repositories.   *)
(* null is the empty sequence, a found row or value v is <<v>>.            *)

\* table puzzles; its rows are never changed by the submission flow
PuzzlesTable == {TestPuzzle, SolvedAtStartPuzzle}

getPuzzleById(id) ==
    IF \E p \in PuzzlesTable : p.id = id
    THEN <<CHOOSE p \in PuzzlesTable : p.id = id>>
    ELSE <<>>

rowToPlayerStats(row) ==
    [discordUserId |-> row.discord_user_id,
     gamesPlayed   |-> row.games_played,
     gamesWon      |-> row.games_won,
     currentStreak |-> row.current_streak,
     maxStreak     |-> row.max_streak,
     averageMoves  |-> 0,
     averageTime   |-> 0]

\* SELECT * FROM players WHERE discord_user_id = $1
getPlayerByDiscordId(rows, discordUserId) ==
    IF \E row \in rows : row.discord_user_id = discordUserId
    THEN <<rowToPlayerStats(CHOOSE row \in rows : row.discord_user_id = discordUserId)>>
    ELSE <<>>

\* SELECT id FROM players WHERE discord_user_id = $1
getPlayerDbId(rows, discordUserId) ==
    IF \E row \in rows : row.discord_user_id = discordUserId
    THEN <<(CHOOSE row \in rows : row.discord_user_id = discordUserId).id>>
    ELSE <<>>

\* variant: the conflicting INSERT replaces the row, counters at their defaults
insertPlayer_replacesOnConflict(rows, discordUserId) ==
    {row \in rows : row.discord_user_id # discordUserId}
        \cup {[id |-> IF \E row \in rows : row.discord_user_id = discordUserId
                      THEN (CHOOSE row \in rows : row.discord_user_id = discordUserId).id
                      ELSE Cardinality(rows) + 1,
               discord_user_id |-> discordUserId,
               games_played |-> 0, games_won |-> 0,
               current_streak |-> 0, max_streak |-> 0]}

\* INSERT INTO players ... ON CONFLICT (discord_user_id) DO UPDATE SET username
\* (the route passes no username; the conflict branch rewrites only username)
insertPlayer(rows, discordUserId) ==
    IF \E row \in rows : row.discord_user_id = discordUserId
    THEN rows
    ELSE rows \cup {[id |-> Cardinality(rows) + 1,
                     discord_user_id |-> discordUserId,
                     games_played |-> 0, games_won |-> 0,
                     current_streak |-> 0, max_streak |-> 0]}

Greatest(a, b) == IF a >= b THEN a ELSE b

\* variant: GREATEST(max_streak, current_streak), the streak before the call
updatePlayerStats_staleStreak(rows, discordUserId, won) ==
    { IF row.discord_user_id = discordUserId
      THEN [row EXCEPT
               !.games_played   = row.games_played + 1,
               !.games_won      = row.games_won + (IF won THEN 1 ELSE 0),
               !.current_streak = IF won THEN row.current_streak + 1 ELSE 0,
               !.max_streak     = Greatest(row.max_streak, row.current_streak)]
      ELSE row : row \in rows }

\* UPDATE players SET ... WHERE discord_user_id = $1
updatePlayerStats(rows, discordUserId, won) ==
    { IF row.discord_user_id = discordUserId
      THEN [row EXCEPT
               !.games_played   = row.games_played + 1,
               !.games_won      = row.games_won + (IF won THEN 1 ELSE 0),
               !.current_streak = IF won THEN row.current_streak + 1 ELSE 0,
               !.max_streak     = Greatest(row.max_streak,
                                    IF won THEN row.current_streak + 1 ELSE 0)]
      ELSE row : row \in rows }

\* SELECT id FROM solutions WHERE player_id = $1 AND puzzle_id = $2
selectSolution(rows, playerId, puzzleId) ==
    \E row \in rows : row.player_id = playerId /\ row.puzzle_id = puzzleId

\* variant: table solutions without its unique constraint
violatesUnique_none(rows, playerId, puzzleId) == FALSE

\* UNIQUE(player_id, puzzle_id) on table solutions
violatesUnique(rows, playerId, puzzleId) ==
    \E row \in rows : row.player_id = playerId /\ row.puzzle_id = puzzleId

\* INSERT INTO solutions (player_id, puzzle_id, moves, move_count, time_seconds)
insertSolution(rows, playerId, puzzleId, moves, moveCount, timeSeconds) ==
    rows \cup {[id |-> Cardinality(rows) + 1,
                player_id |-> playerId, puzzle_id |-> puzzleId,
                moves |-> moves, move_count |-> moveCount,
                time_seconds |-> timeSeconds]}

----------------------------------------------------------------------------
(* What the clients send *)

Moves == {[ship |-> c, direction |-> d] : c \in ShipColors, d \in Directions}

RECURSIVE MoveLists(_)
MoveLists(n) ==
    IF n = 0 THEN {<<>>}
    ELSE MoveLists(n - 1) \cup
         {Append(l, m) : l \in {k \in MoveLists(n - 1) : Len(k) = n - 1}, m \in Moves}

Mv(c, d) == [ship |-> c, direction |-> d]

\* "concurrent": two players, an existing and a missing puzzle id, a solving
\*               and a non-solving move list for the test puzzle;
\* "single":     one player, every puzzle id, every move list up to MaxSubmitLen;
\* "counted":    one player, the two stored puzzles, a move list solving both
Users(w) ==
    IF w = "concurrent" THEN {"alice", "bob"}
    ELSE IF w \in {"single", "counted"} THEN {"alice"}
    ELSE {}

PuzzleIds(w) ==
    IF w = "concurrent" THEN {1, 9}
    ELSE IF w = "single" THEN {1, 4, 9}
    ELSE IF w = "counted" THEN {1, 4}
    ELSE {}

MoveListsOf(w) ==
    IF w = "concurrent" THEN {<<Mv("red", "right")>>, <<>>}
    ELSE IF w = "single" THEN MoveLists(MaxSubmitLen)
    ELSE IF w = "counted" THEN {<<Mv("red", "right")>>}
    ELSE {}

----------------------------------------------------------------------------
(* submitSolution (solutionRepository) behind POST /api/solution           *)

\* for (const move of moves) state = applyMove(state, move.ship, move.direction)
RECURSIVE replay(_, _, _)
replay(st, moves, dateNow) ==
    IF moves = <<>> THEN st
    ELSE replay(applyMove(st, Head(moves).ship, Head(moves).direction, dateNow),
                Tail(moves), dateNow)

\* variant: accepts when the red ship was on the astronaut at any point
solves_visited(puzzle, moves, dateNow) ==
    \E k \in 0..Len(moves) :
        checkWin(replay(createGameState(puzzle, dateNow), SubSeq(moves, 1, k),
                        dateNow).ships,
                 puzzle.astronaut)

\* the replay check of submitSolution: true when the moves solve the puzzle
solves(puzzle, moves, dateNow) ==
    checkWin(replay(createGameState(puzzle, dateNow), moves, dateNow).ships,
             puzzle.astronaut)

NoResponse == [status |-> 0, valid |-> FALSE, starRating |-> 0, stats |-> <<>>]

ErrorResponse(code) == [status |-> code, valid |-> FALSE, starRating |-> 0, stats |-> <<>>]

IdleReq ==
    [pc |-> "idle", discordUserId |-> "", puzzleId |-> 0, moves |-> <<>>,
     timeSeconds |-> 0, playerId |-> <<>>, alreadySolved |-> FALSE,
     response |-> NoResponse]

Respond(r, resp) ==
    reqs' = [reqs EXCEPT ![r].pc = "done", ![r].response = resp]

Goto(r, label) ==
    reqs' = [reqs EXCEPT ![r].pc = label]

\* router.post('/'): header and body checks, then the first query is issued
Receive ==
    \E r \in DOMAIN reqs :
        /\ reqs[r].pc = "idle"
        /\ \A q \in DOMAIN reqs : q < r => reqs[q].pc # "idle"
        /\ \/ Respond(r, ErrorResponse(401))
           \/ \E u \in Users(workload) :
                reqs' = [reqs EXCEPT ![r].pc = "done", ![r].discordUserId = u,
                                     ![r].response = ErrorResponse(400)]
           \/ \E u \in Users(workload), pid \in PuzzleIds(workload),
                 mv \in MoveListsOf(workload) :
                reqs' = [reqs EXCEPT ![r].pc = "getOrCreatePlayer",
                                     ![r].discordUserId = u,
                                     ![r].puzzleId = pid,
                                     ![r].moves = mv,
                                     ![r].timeSeconds = 30]
        /\ UNCHANGED <<players, solutions, workload, puzzles, gameVars, destVars, pureVars, heapVars, clientVars>>

\* getOrCreatePlayer: const existing = await getPlayerByDiscordId(...)
GetOrCreatePlayer ==
    \E r \in DOMAIN reqs :
        /\ reqs[r].pc = "getOrCreatePlayer"
        /\ IF getPlayerByDiscordId(players, reqs[r].discordUserId) # <<>>
           THEN Goto(r, "hasPlayerSolvedPuzzle")
           ELSE Goto(r, "insertPlayer")
        /\ UNCHANGED <<players, solutions, workload, puzzles, gameVars, destVars, pureVars, heapVars, clientVars>>

\* getOrCreatePlayer: INSERT INTO players ... ON CONFLICT ... RETURNING *
InsertPlayer ==
    \E r \in DOMAIN reqs :
        /\ reqs[r].pc = "insertPlayer"
        /\ players' = insertPlayer(players, reqs[r].discordUserId)
        /\ Goto(r, "hasPlayerSolvedPuzzle")
        /\ UNCHANGED <<solutions, workload, puzzles, gameVars, destVars, pureVars, heapVars, clientVars>>

\* hasPlayerSolvedPuzzle: const playerId = await getPlayerDbId(...)
HasSolvedPlayerId ==
    \E r \in DOMAIN reqs :
        /\ reqs[r].pc = "hasPlayerSolvedPuzzle"
        /\ LET playerId == getPlayerDbId(players, reqs[r].discordUserId)
           IN  IF playerId = <<>>
               THEN reqs' = [reqs EXCEPT ![r].pc = "getPuzzleById",
                                         ![r].alreadySolved = FALSE]
               ELSE reqs' = [reqs EXCEPT ![r].pc = "selectSolution",
                                         ![r].playerId = playerId]
        /\ UNCHANGED <<players, solutions, workload, puzzles, gameVars, destVars, pureVars, heapVars, clientVars>>

\* hasPlayerSolvedPuzzle: SELECT id FROM solutions ...; then lines 62-70
HasSolvedSelect ==
    \E r \in DOMAIN reqs :
        /\ reqs[r].pc = "selectSolution"
        /\ LET alreadySolved == selectSolution(solutions, reqs[r].playerId[1],
                                               reqs[r].puzzleId)
           IN  reqs' = [reqs EXCEPT
                           ![r].pc = IF alreadySolved THEN "reject" ELSE "getPuzzleById",
                           ![r].alreadySolved = alreadySolved]
        /\ UNCHANGED <<players, solutions, workload, puzzles, gameVars, destVars, pureVars, heapVars, clientVars>>

\* const puzzle = await getPuzzleById(puzzleId); then the replay, lines 73-95
GetPuzzleAndReplay ==
    \E r \in DOMAIN reqs :
        /\ reqs[r].pc = "getPuzzleById"
        /\ LET puzzle == getPuzzleById(reqs[r].puzzleId)
           IN  IF puzzle = <<>> THEN Goto(r, "reject")
               ELSE IF ~solves(puzzle[1], reqs[r].moves, now) THEN Goto(r, "reject")
               ELSE Goto(r, "getPlayerDbId")
        /\ UNCHANGED <<players, solutions, workload, puzzles, gameVars, destVars, pureVars, heapVars, clientVars>>

\* const playerId = await getPlayerDbId(discordUserId), lines 98-106
GetPlayerDbId ==
    \E r \in DOMAIN reqs :
        /\ reqs[r].pc = "getPlayerDbId"
        /\ LET playerId == getPlayerDbId(players, reqs[r].discordUserId)
           IN  IF playerId = <<>> THEN Goto(r, "reject")
               ELSE reqs' = [reqs EXCEPT ![r].pc = "insertSolution",
                                         ![r].playerId = playerId]
        /\ UNCHANGED <<players, solutions, workload, puzzles, gameVars, destVars, pureVars, heapVars, clientVars>>

\* variant: the unique violation is swallowed and the call goes on to the
\* statistics update
InsertSolution_ignoresConflict ==
    \E r \in DOMAIN reqs :
        /\ reqs[r].pc = "insertSolution"
        /\ IF violatesUnique(solutions, reqs[r].playerId[1], reqs[r].puzzleId)
           THEN UNCHANGED solutions
           ELSE solutions' = insertSolution(solutions, reqs[r].playerId[1],
                                 reqs[r].puzzleId, reqs[r].moves,
                                 Len(reqs[r].moves), reqs[r].timeSeconds)
        /\ Goto(r, "updatePlayerStats")
        /\ UNCHANGED <<players, workload, puzzles, gameVars, destVars, pureVars, heapVars, clientVars>>

\* await query(INSERT INTO solutions ...), lines 109-114; a unique violation
\* rejects the promise, submitSolution rethrows and the route answers 500
InsertSolution ==
    \E r \in DOMAIN reqs :
        /\ reqs[r].pc = "insertSolution"
        /\ IF violatesUnique(solutions, reqs[r].playerId[1], reqs[r].puzzleId)
           THEN /\ Respond(r, ErrorResponse(500))
                /\ UNCHANGED solutions
           ELSE /\ solutions' = insertSolution(solutions, reqs[r].playerId[1],
                                    reqs[r].puzzleId, reqs[r].moves,
                                    Len(reqs[r].moves), reqs[r].timeSeconds)
                /\ Goto(r, "updatePlayerStats")
        /\ UNCHANGED <<players, workload, puzzles, gameVars, destVars, pureVars, heapVars, clientVars>>

\* const updatedStats = await updatePlayerStats(discordUserId, true), 117-126
UpdatePlayerStats ==
    \E r \in DOMAIN reqs :
        /\ reqs[r].pc = "updatePlayerStats"
        /\ players' = updatePlayerStats(players, reqs[r].discordUserId, TRUE)
        /\ Respond(r, [status     |-> 200,
                       valid      |-> TRUE,
                       starRating |-> calculateStarRating(Len(reqs[r].moves),
                                         getPuzzleById(reqs[r].puzzleId)[1].optimalMoves),
                       stats      |-> getPlayerByDiscordId(players', reqs[r].discordUserId)])
        /\ UNCHANGED <<solutions, workload, puzzles, gameVars, destVars, pureVars, heapVars, clientVars>>

\* variant: a rejected attempt is counted as a played, lost game
Reject_recordsLoss ==
    \E r \in DOMAIN reqs :
        /\ reqs[r].pc = "reject"
        /\ players' = updatePlayerStats(players, reqs[r].discordUserId, FALSE)
        /\ Respond(r, [status     |-> 200,
                       valid      |-> FALSE,
                       starRating |-> 1,
                       stats      |-> getPlayerByDiscordId(players', reqs[r].discordUserId)])
        /\ UNCHANGED <<solutions, workload, puzzles, gameVars, destVars, pureVars, heapVars, clientVars>>

\* const stats = await getPlayerByDiscordId(...); return { valid: false, ... }
Reject ==
    \E r \in DOMAIN reqs :
        /\ reqs[r].pc = "reject"
        /\ Respond(r, [status     |-> 200,
                       valid      |-> FALSE,
                       starRating |-> 1,
                       stats      |-> getPlayerByDiscordId(players, reqs[r].discordUserId)])
        /\ UNCHANGED <<players, solutions, workload, puzzles, gameVars, destVars, pureVars, heapVars, clientVars>>

----------------------------------------------------------------------------
(* Idle server *)

ServerIdle ==
    /\ players = {}
    /\ solutions = {}
    /\ reqs = <<>>
    /\ workload = "none"
    /\ puzzles = {}

----------------------------------------------------------------------------
(* SpecPlayers: the player repository called directly. getOrCreatePlayer   *)
(* is a SELECT followed, when no row was found, by an INSERT ... ON        *)
(* CONFLICT; other calls run between the two queries. updatePlayerStats is *)
(* one UPDATE statement.                                                   *)

PlayerIds == {"alice", "bob"}

IdleCall == [pc |-> "idle", discordUserId |-> "", ret |-> <<>>]

InitPlayers ==
    /\ players = {}
    /\ solutions = {}
    /\ workload = "players"
    /\ puzzles = {}
    /\ reqs = [r \in 1..NumPlayerCalls |-> IdleCall]
    /\ pcall = [fn |-> "updatePlayerStats", calls |-> <<>>]

\* const existing = await getPlayerByDiscordId(discordUserId);
\* if (existing) return existing;
GetOrCreatePlayerSelect ==
    \E r \in DOMAIN reqs, u \in PlayerIds :
        /\ workload = "players"
        /\ reqs[r].pc = "idle"
        /\ LET existing == getPlayerByDiscordId(players, u)
           IN  reqs' = [reqs EXCEPT
                           ![r].discordUserId = u,
                           ![r].pc  = IF existing # <<>> THEN "done" ELSE "insert",
                           ![r].ret = existing]
        /\ UNCHANGED <<players, solutions, workload, puzzles, gameVars, destVars, pureVars, heapVars, clientVars>>

\* const rows = await query(INSERT INTO players ... ON CONFLICT ... RETURNING *);
\* return rowToPlayerStats(rows[0]);
GetOrCreatePlayerInsert ==
    \E r \in DOMAIN reqs :
        /\ workload = "players"
        /\ reqs[r].pc = "insert"
        /\ players' = insertPlayer(players, reqs[r].discordUserId)
        /\ reqs' = [reqs EXCEPT
                        ![r].pc  = "done",
                        ![r].ret = getPlayerByDiscordId(players', reqs[r].discordUserId)]
        /\ UNCHANGED <<solutions, workload, puzzles, gameVars, destVars, pureVars, heapVars, clientVars>>

\* updatePlayerStats(discordUserId, won) for a player that exists
CallUpdatePlayerStats ==
    \E u \in PlayerIds, won \in BOOLEAN :
        /\ workload = "players"
        /\ Len(pcall.calls) < MaxStatsCalls
        /\ getPlayerByDiscordId(players, u) # <<>>
        /\ players' = updatePlayerStats(players, u, won)
        /\ pcall' = [pcall EXCEPT
                         !.calls = Append(@, [discordUserId |-> u, won |-> won])]
        /\ UNCHANGED <<solutions, reqs, workload, puzzles, gameVars, destVars, heapVars, clientVars>>

----------------------------------------------------------------------------
(* SpecPuzzles: createPuzzle and the seed script on one database. A seed   *)
(* run reads today's date once, looks the date up and, when it found no    *)
(* row, calls createPuzzle; other calls and runs come between its two      *)
(* queries.                                                                *)

Dates == {"2025-01-01", "2025-01-02"}

\* SELECT * FROM puzzles WHERE date = $1
selectPuzzleByDate(rows, date) ==
    IF \E row \in rows : row.date = date
    THEN <<CHOOSE row \in rows : row.date = date>>
    ELSE <<>>

\* variant: column date without its unique constraint
violatesUniqueDate_none(rows, date) == FALSE

\* date DATE UNIQUE NOT NULL
violatesUniqueDate(rows, date) == \E row \in rows : row.date = date

\* INSERT INTO puzzles (date, board_layout, optimal_moves) VALUES ($1, $2, $3)
insertPuzzle(rows, puzzle) ==
    rows \cup {[id            |-> Cardinality(rows) + 1,
                date          |-> puzzle.date,
                board_layout  |-> [ships     |-> puzzle.ships,
                                   obstacles |-> puzzle.obstacles,
                                   astronaut |-> puzzle.astronaut],
                optimal_moves |-> puzzle.optimalMoves]}

\* Omit<Puzzle, 'id'>
PuzzleInput(puzzle, date) ==
    [date |-> date, ships |-> puzzle.ships, obstacles |-> puzzle.obstacles,
     astronaut |-> puzzle.astronaut, optimalMoves |-> puzzle.optimalMoves]

InitPuzzles ==
    /\ players = {}
    /\ solutions = {}
    /\ workload = "puzzles"
    /\ puzzles = {}
    /\ reqs = [r \in 1..NumPuzzleCalls |->
                 [pc |-> "idle", op |-> "none", puzzle |-> <<>>, outcome |-> "none"]]

\* the INSERT of createPuzzle: a unique violation rejects the promise
createPuzzleStep(r, op, puzzle) ==
    IF violatesUniqueDate(puzzles, puzzle.date)
    THEN /\ reqs' = [reqs EXCEPT ![r] = [pc |-> "done", op |-> op,
                                         puzzle |-> <<puzzle>>, outcome |-> "threw"]]
         /\ UNCHANGED puzzles
    ELSE /\ puzzles' = insertPuzzle(puzzles, puzzle)
         /\ reqs' = [reqs EXCEPT ![r] = [pc |-> "done", op |-> op,
                                         puzzle |-> <<puzzle>>, outcome |-> "created"]]

\* createPuzzle(puzzle) called directly
CreatePuzzle ==
    \E r \in DOMAIN reqs, p \in {TestPuzzle, BlockedPuzzle}, date \in Dates :
        /\ workload = "puzzles"
        /\ reqs[r].pc = "idle"
        /\ createPuzzleStep(r, "createPuzzle", PuzzleInput(p, date))
        /\ UNCHANGED <<players, solutions, workload, gameVars, destVars, pureVars, heapVars, clientVars>>

\* seed: today = new Date()...; existing = await getPuzzleByDate(today);
\* if (existing) return
SeedGetPuzzleByDate ==
    \E r \in DOMAIN reqs, today \in Dates :
        /\ workload = "puzzles"
        /\ reqs[r].pc = "idle"
        /\ reqs' = [reqs EXCEPT ![r] =
              IF selectPuzzleByDate(puzzles, today) # <<>>
              THEN [pc |-> "done", op |-> "seed",
                    puzzle |-> <<PuzzleInput(SeedPuzzle, today)>>, outcome |-> "exists"]
              ELSE [pc |-> "createPuzzle", op |-> "seed",
                    puzzle |-> <<PuzzleInput(SeedPuzzle, today)>>, outcome |-> "none"]]
        /\ UNCHANGED <<players, solutions, workload, puzzles, gameVars, destVars, pureVars, heapVars, clientVars>>

\* seed: const puzzle = await createPuzzle({ date: today, ... }); a rejection
\* reaches seed().catch, which exits with status 1
SeedCreatePuzzle ==
    \E r \in DOMAIN reqs :
        /\ workload = "puzzles"
        /\ reqs[r].pc = "createPuzzle"
        /\ createPuzzleStep(r, "seed", reqs[r].puzzle[1])
        /\ UNCHANGED <<players, solutions, workload, gameVars, destVars, pureVars, heapVars, clientVars>>

----------------------------------------------------------------------------
(* SpecShare: generateShareText of the results screen. A JavaScript string *)
(* is the sequence of its characters; the two star glyphs are written by   *)
(* their code points.                                                      *)

FilledStar == "U+2605"
EmptyStar == "U+2606"
Newline == "\n"

DigitChars == <<"0", "1", "2", "3", "4", "5", "6", "7", "8", "9">>

\* Number.prototype.toString of a non-negative integer: decimal, no leading 0
RECURSIVE toString(_)
toString(n) ==
    IF n < 10 THEN <<DigitChars[n + 1]>>
    ELSE Append(toString(n \div 10), DigitChars[(n % 10) + 1])

\* String.prototype.padStart(maxLength, fillString) with a one-character fill
RECURSIVE padStart(_, _, _)
padStart(str, maxLength, fill) ==
    IF Len(str) >= maxLength THEN str
    ELSE padStart(<<fill>> \o str, maxLength, fill)

\* String.prototype.repeat(count)
RECURSIVE repeat(_, _)
repeat(str, count) ==
    IF count = 0 THEN <<>> ELSE str \o repeat(str, count - 1)

\* variant: the seconds are written without padding
formatTime_unpadded(seconds) ==
    toString(seconds \div 60) \o <<":">> \o toString(seconds % 60)

\* `${mins}:${secs.toString().padStart(2, '0')}`
formatTime(seconds) ==
    LET mins == seconds \div 60
        secs == seconds % 60
    IN  toString(mins) \o <<":">> \o padStart(toString(secs), 2, "0")

generateShareText(puzzle, moveCount, timeSeconds, starRating) ==
    LET stars == repeat(<<FilledStar>>, starRating)
                    \o repeat(<<EmptyStar>>, 5 - starRating)
    IN  <<"S", "l", "i", "d", "e", "C", "r", "a", "f", "t", " ", "#">>
           \o toString(puzzle.id) \o <<Newline>>
        \o stars \o <<Newline>>
        \o <<"M", "o", "v", "e", "s", ":", " ">> \o toString(moveCount)
           \o <<"/">> \o toString(puzzle.optimalMoves) \o <<Newline>>
        \o <<"T", "i", "m", "e", ":", " ">> \o formatTime(timeSeconds)

InitShare ==
    \E puzzle \in Puzzles, moveCount \in 0..MaxShareMoves,
       timeSeconds \in 0..MaxShareSeconds, starRating \in 1..5 :
        pcall = [fn |-> "generateShareText", puzzle |-> puzzle,
                 moveCount |-> moveCount, timeSeconds |-> timeSeconds,
                 starRating |-> starRating, ret |-> Undefined]

\* handleShare: const text = generateShareText()
CallGenerateShareText ==
    /\ pcall.fn = "generateShareText"
    /\ pcall.ret = Undefined
    /\ pcall' = [pcall EXCEPT !.ret = Defined(generateShareText(
                     pcall.puzzle, pcall.moveCount, pcall.timeSeconds,
                     pcall.starRating))]
    /\ UNCHANGED <<gameVars, destVars, serverVars, heapVars, clientVars>>

----------------------------------------------------------------------------
(* SpecHeap: the state manager with its objects on a heap.                 *)
(* An address is an index of `heap`; an object literal or a spread of the  *)
(* code allocates a new cell, a property read follows an address. The      *)
(* obstacles and the astronaut of a puzzle are never copied nor written,   *)
(* so they are kept as values inside the Puzzle object.                    *)

PositionObject(pos) == [kind |-> "Position", x |-> pos.x, y |-> pos.y]

ShipObject(color, positionAddr) ==
    [kind |-> "Ship", color |-> color, position |-> positionAddr]

ArrayObject(items) == [kind |-> "Array", items |-> items]

MoveObject(ship, direction) == [kind |-> "Move", ship |-> ship, direction |-> direction]

\* the values read through an address
positionAt(h, a) == Pos(h[a].x, h[a].y)

shipsAt(h, a) ==
    [i \in 1..Len(h[a].items) |->
        [color    |-> h[h[a].items[i]].color,
         position |-> positionAt(h, h[h[a].items[i]].position)]]

movesAt(h, a) ==
    [i \in 1..Len(h[a].items) |->
        [ship |-> h[h[a].items[i]].ship, direction |-> h[h[a].items[i]].direction]]

puzzleAt(h, a) ==
    [id |-> h[a].id, date |-> h[a].date,
     ships |-> shipsAt(h, h[a].ships),
     obstacles |-> h[a].obstacles,
     astronaut |-> h[a].astronaut,
     optimalMoves |-> h[a].optimalMoves]

stateAt(h, a) ==
    [puzzle         |-> puzzleAt(h, h[a].puzzle),
     ships          |-> shipsAt(h, h[a].ships),
     moves          |-> movesAt(h, h[a].moves),
     moveCount      |-> h[a].moveCount,
     startTime      |-> h[a].startTime,
     completed      |-> h[a].completed,
     completionTime |-> h[a].completionTime]

\* a Puzzle as the caller holds it: its ships, their positions, the array
allocPuzzle(h, puzzle) ==
    LET n    == Len(puzzle.ships)
        base == Len(h)
    IN  [heap |-> h \o [i \in 1..n |-> PositionObject(puzzle.ships[i].position)]
                    \o [i \in 1..n |-> ShipObject(puzzle.ships[i].color, base + i)]
                    \o <<ArrayObject([i \in 1..n |-> base + n + i]),
                         [kind |-> "Puzzle", id |-> puzzle.id, date |-> puzzle.date,
                          ships |-> base + 2 * n + 1,
                          obstacles |-> puzzle.obstacles,
                          astronaut |-> puzzle.astronaut,
                          optimalMoves |-> puzzle.optimalMoves]>>,
         ret  |-> base + 2 * n + 2]

\* puzzle.ships.map((s) => ({ color: s.color, position: { ...s.position } })):
\* the new Position objects, the new Ship objects and the new array, in the
\* order they are laid out from address base + 1
copiedShips(h, shipsAddr, base) ==
    LET src == h[shipsAddr].items
        n   == Len(src)
    IN  [i \in 1..n |-> PositionObject(positionAt(h, h[src[i]].position))]
        \o [i \in 1..n |-> ShipObject(h[src[i]].color, base + i)]
        \o <<ArrayObject([i \in 1..n |-> base + n + i])>>

\* variant: the new ships keep the Position objects of the puzzle
createGameStateOnHeap_sharesPositions(h, puzzleAddr, dateNow) ==
    LET base == Len(h)
        src  == h[h[puzzleAddr].ships].items
        n    == Len(src)
    IN  [heap |-> h \o [i \in 1..n |-> ShipObject(h[src[i]].color, h[src[i]].position)]
                    \o <<ArrayObject([i \in 1..n |-> base + i]),
                         ArrayObject(<<>>),
                         [kind           |-> "GameState",
                          puzzle         |-> puzzleAddr,
                          ships          |-> base + n + 1,
                          moves          |-> base + n + 2,
                          moveCount      |-> 0,
                          startTime      |-> dateNow,
                          completed      |-> FALSE,
                          completionTime |-> Undefined]>>,
         ret  |-> base + n + 3]

\* variant: the new state takes the ships array of the puzzle itself
createGameStateOnHeap_sharesShips(h, puzzleAddr, dateNow) ==
    LET base == Len(h)
    IN  [heap |-> h \o <<ArrayObject(<<>>),
                         [kind           |-> "GameState",
                          puzzle         |-> puzzleAddr,
                          ships          |-> h[puzzleAddr].ships,
                          moves          |-> base + 1,
                          moveCount      |-> 0,
                          startTime      |-> dateNow,
                          completed      |-> FALSE,
                          completionTime |-> Undefined]>>,
         ret  |-> base + 2]

createGameStateOnHeap(h, puzzleAddr, dateNow) ==
    LET base == Len(h)
        n    == Len(h[h[puzzleAddr].ships].items)
    IN  [heap |-> h \o copiedShips(h, h[puzzleAddr].ships, base)
                    \o <<ArrayObject(<<>>),
                         [kind           |-> "GameState",
                          puzzle         |-> puzzleAddr,
                          ships          |-> base + 2 * n + 1,
                          moves          |-> base + 2 * n + 2,
                          moveCount      |-> 0,
                          startTime      |-> dateNow,
                          completed      |-> FALSE,
                          completionTime |-> Undefined]>>,
         ret  |-> base + 2 * n + 3]

\* variant: the moved ship's Position object is overwritten and the ships
\* array of the given state is reused
applyMoveOnHeap_inPlace(h, stateAddr, shipColor, direction, dateNow) ==
    LET st        == h[stateAddr]
        ships     == shipsAt(h, st.ships)
        shipIndex == findIndex(ships, shipColor)
    IN  IF shipIndex = 0 THEN [heap |-> h, ret |-> stateAddr]
        ELSE
        LET ship        == ships[shipIndex]
            newPosition == calculateDestination(ship, direction, ships,
                                                h[st.puzzle].obstacles, BoardSize)
        IN  IF newPosition.x = ship.position.x /\ newPosition.y = ship.position.y
            THEN [heap |-> h, ret |-> stateAddr]
            ELSE
            LET base     == Len(h)
                posAddr  == h[h[st.ships].items[shipIndex]].position
                written  == [h EXCEPT ![posAddr] = PositionObject(newPosition)]
                isWin    == checkWin(shipsAt(written, st.ships), h[st.puzzle].astronaut)
            IN  [heap |-> written
                           \o <<MoveObject(shipColor, direction),
                                ArrayObject(Append(h[st.moves].items, base + 1)),
                                [st EXCEPT
                                    !.moves          = base + 2,
                                    !.moveCount      = st.moveCount + 1,
                                    !.completed      = isWin,
                                    !.completionTime =
                                        IF isWin
                                        THEN Defined((dateNow - st.startTime) \div 1000)
                                        ELSE Undefined]>>,
                 ret  |-> base + 3]

applyMoveOnHeap(h, stateAddr, shipColor, direction, dateNow) ==
    LET st        == h[stateAddr]
        ships     == shipsAt(h, st.ships)
        shipIndex == findIndex(ships, shipColor)
    IN  IF shipIndex = 0 THEN [heap |-> h, ret |-> stateAddr]
        ELSE
        LET ship        == ships[shipIndex]
            newPosition == calculateDestination(ship, direction, ships,
                                                h[st.puzzle].obstacles, BoardSize)
        IN  IF newPosition.x = ship.position.x /\ newPosition.y = ship.position.y
            THEN [heap |-> h, ret |-> stateAddr]
            ELSE
            LET n        == Len(ships)
                base     == Len(h)
                items    == h[st.ships].items
                newShips == [i \in 1..n |->
                                IF i = shipIndex
                                THEN [ships[i] EXCEPT !.position = newPosition]
                                ELSE ships[i]]
                isWin    == checkWin(newShips, h[st.puzzle].astronaut)
            IN  [heap |-> h \o [i \in 1..n |-> PositionObject(newShips[i].position)]
                            \o [i \in 1..n |-> ShipObject(h[items[i]].color, base + i)]
                            \o <<ArrayObject([i \in 1..n |-> base + n + i]),
                                 MoveObject(shipColor, direction),
                                 ArrayObject(Append(h[st.moves].items, base + 2 * n + 2)),
                                 [st EXCEPT
                                     !.ships          = base + 2 * n + 1,
                                     !.moves          = base + 2 * n + 3,
                                     !.moveCount      = st.moveCount + 1,
                                     !.completed      = isWin,
                                     !.completionTime =
                                         IF isWin
                                         THEN Defined((dateNow - st.startTime) \div 1000)
                                         ELSE Undefined]>>,
                 ret  |-> base + 2 * n + 4]

resetGameStateOnHeap(h, stateAddr) ==
    LET st   == h[stateAddr]
        base == Len(h)
        n    == Len(h[h[st.puzzle].ships].items)
    IN  [heap |-> h \o copiedShips(h, h[st.puzzle].ships, base)
                    \o <<ArrayObject(<<>>),
                         [st EXCEPT
                             !.ships          = base + 2 * n + 1,
                             !.moves          = base + 2 * n + 2,
                             !.moveCount      = 0,
                             !.completed      = FALSE,
                             !.completionTime = Undefined]>>,
         ret  |-> base + 2 * n + 3]

\* the puzzles played in SpecHeap
HeapPuzzles == {TestPuzzle, BlockedPuzzle}

\* the coordinate written by an in-place edit: state.ships[0].position.x = 99
EditValues == {0, 99}

\* the values of the current state of every attempt
Snapshot == [b \in DOMAIN cur.attempts |-> stateAt(heap, cur.attempts[b])]

\* one puzzle, and two game states created from it
InitHeap ==
    \E puzzle \in HeapPuzzles :
        LET p  == allocPuzzle(<<>>, puzzle)
            s1 == createGameStateOnHeap(p.heap, p.ret, now)
            s2 == createGameStateOnHeap(s1.heap, p.ret, now)
        IN  /\ heap = s2.heap
            /\ cur = [puzzle |-> p.ret, original |-> puzzle,
                      attempts |-> <<s1.ret, s2.ret>>,
                      requested |-> <<(<<>>), (<<>>)>>,
                      edited |-> <<FALSE, FALSE>>]
            /\ hlast = [op |-> "createGameState", attempt |-> 2, input |-> p.ret,
                        ret |-> s2.ret,
                        before |-> <<stateAt(s2.heap, s1.ret), stateAt(s2.heap, s2.ret)>>,
                        calls |-> 0]

\* attempt a: state = applyMove(state, shipColor, direction)
HeapApplyMove ==
    \E a \in DOMAIN cur.attempts, shipColor \in ShipColors, direction \in Directions :
        LET r == applyMoveOnHeap(heap, cur.attempts[a], shipColor, direction, now)
        IN  /\ hlast.calls < MaxHeapCalls
            /\ heap' = r.heap
            /\ cur' = [cur EXCEPT
                          !.attempts[a] = r.ret,
                          !.requested[a] = Append(@, [ship |-> shipColor,
                                                      direction |-> direction])]
            /\ hlast' = [op |-> "applyMove", attempt |-> a, input |-> cur.attempts[a],
                         ret |-> r.ret, before |-> Snapshot, calls |-> hlast.calls + 1]
            /\ UNCHANGED <<gameVars, destVars, serverVars, pureVars, clientVars>>

\* attempt a: state = resetGameState(state)
HeapReset ==
    \E a \in DOMAIN cur.attempts :
        LET r == resetGameStateOnHeap(heap, cur.attempts[a])
        IN  /\ hlast.calls < MaxHeapCalls
            /\ heap' = r.heap
            /\ cur' = [cur EXCEPT !.attempts[a] = r.ret,
                                   !.requested[a] = <<>>,
                                   !.edited[a] = FALSE]
            /\ hlast' = [op |-> "resetGameState", attempt |-> a,
                         input |-> cur.attempts[a], ret |-> r.ret,
                         before |-> Snapshot, calls |-> hlast.calls + 1]
            /\ UNCHANGED <<gameVars, destVars, serverVars, pureVars, clientVars>>

\* the holder of attempt a writes into its state: state.ships[i].position.x = v
HeapEdit ==
    \E a \in DOMAIN cur.attempts, v \in EditValues :
    \E i \in DOMAIN heap[heap[cur.attempts[a]].ships].items :
        LET posAddr == heap[heap[heap[cur.attempts[a]].ships].items[i]].position
        IN  /\ hlast.calls < MaxHeapCalls
            /\ heap' = [heap EXCEPT ![posAddr].x = v]
            /\ cur' = [cur EXCEPT !.edited[a] = TRUE]
            /\ hlast' = [op |-> "edit", attempt |-> a, input |-> cur.attempts[a],
                         ret |-> cur.attempts[a], before |-> Snapshot,
                         calls |-> hlast.calls + 1]
            /\ UNCHANGED <<gameVars, destVars, serverVars, pureVars, clientVars>>

----------------------------------------------------------------------------
(* SpecClient: the controller useGame (client/src/components/Game).        *)
(* ui.gameState and ui.selectedShip are the React state of the last        *)
(* commit; ui.closure is what the callbacks and the keydown listener of    *)
(* that commit captured; ui.pending are the state updates queued since.    *)
(* The root is a React 18 createRoot: the updates queued by a click or a   *)
(* key press, and those queued by the effects of their render, are         *)
(* rendered before the next event is handled, so a click or key press is   *)
(* taken only when no such update is pending. The updates queued by the    *)
(* answer of the server and by the celebration timer are marked async:     *)
(* they wait for a later render, and clicks may come before it.            *)
(* ui.showCelebration, ui.showResults, ui.gameResult and ui.submitting are *)
(* React state too; ui.hasSubmittedRef is the ref; ui.submitted lists the  *)
(* apiClient.submitSolution calls made; ui.timer is the setTimeout of the  *)
(* Celebration component.                                                  *)

NoShip == "none"

directionMap ==
    [ArrowUp |-> "up", ArrowDown |-> "down", ArrowLeft |-> "left",
     ArrowRight |-> "right", w |-> "up", s |-> "down", a |-> "left", d |-> "right"]

\* the keys pressed: the mapped ones and one that is not mapped
Keys == DOMAIN directionMap \cup {"Escape"}

\* moveShip of the commit that captured c: the updates it queues
moveShip(c, direction) ==
    IF c.selectedShip = NoShip \/ c.gameState.completed THEN <<>>
    ELSE <<[set |-> "gameState", fn |-> "applyMove",
            ship |-> c.selectedShip, direction |-> direction]>>

handleKeyDown(c, key) ==
    IF c.selectedShip = NoShip \/ c.gameState.completed THEN <<>>
    ELSE IF key \in DOMAIN directionMap THEN moveShip(c, directionMap[key])
    ELSE <<>>

selectShip(color) == <<[set |-> "selectedShip", fn |-> "toggle", color |-> color]>>

reset(c) ==
    <<[set |-> "gameState", fn |-> "value", value |-> resetGameState(c.gameState)],
      [set |-> "selectedShip", fn |-> "value", value |-> NoShip]>>

\* the disabled attributes of Game.tsx, from the committed state
directionButtonDisabled(u) == u.selectedShip = NoShip \/ u.gameState.completed

resetButtonDisabled(u) == u.gameState.completed

\* one queued update applied to the state being rendered
applyUpdate(u, update, dateNow) ==
    IF update.set = "gameState"
    THEN [u EXCEPT !.gameState =
            IF update.fn = "applyMove"
            THEN applyMove(u.gameState, update.ship, update.direction, dateNow)
            ELSE update.value]
    ELSE IF update.set = "selectedShip"
    THEN [u EXCEPT !.selectedShip =
            IF update.fn = "toggle"
            THEN (IF u.selectedShip = update.color THEN NoShip ELSE update.color)
            ELSE update.value]
    ELSE [u EXCEPT ![update.set] = update.value]

RECURSIVE applyUpdates(_, _, _)
applyUpdates(u, updates, dateNow) ==
    IF updates = <<>> THEN u
    ELSE applyUpdates(applyUpdate(u, Head(updates), dateNow), Tail(updates), dateNow)

\* variant: gameState is missing from the dependency lists, so the callbacks
\* keep the game state of the commit that created them
captureClosure_staleGameState(c, u) ==
    [gameState |-> c.gameState, selectedShip |-> u.selectedShip]

\* the dependency lists [gameState, selectedShip] and [selectedShip,
\* gameState, moveShip]: the callbacks of a commit capture its state
captureClosure(c, u) ==
    [gameState |-> u.gameState, selectedShip |-> u.selectedShip]

\* the React state of the last commit
ReactState(u) ==
    [gameState |-> u.gameState, selectedShip |-> u.selectedShip,
     showCelebration |-> u.showCelebration, showResults |-> u.showResults,
     gameResult |-> u.gameResult, submitting |-> u.submitting]

setState(name, value) == [set |-> name, fn |-> "value", value |-> value]

setStateAsync(name, value) ==
    [set |-> name, fn |-> "value", value |-> value, async |-> TRUE]

\* no update of a click, a key press or an effect of their render is queued
NoSyncUpdate(updates) ==
    \A k \in 1..Len(updates) : "async" \in DOMAIN updates[k]

\* variant: no dependency list and no hasSubmittedRef: the effect submits
\* after every commit of a completed state
submitEffectRuns_everyCommit(before, after, hasSubmitted) ==
    after.gameState.completed

\* the effect of lines 52-84 gets past its first line: its dependency
\* gameState?.completed changed, the state is completed, the ref is unset
submitEffectRuns(before, after, hasSubmitted) ==
    /\ after.gameState.completed # before.gameState.completed
    /\ after.gameState.completed
    /\ ~hasSubmitted

\* the argument of apiClient.submitSolution
solutionPayload(puzzle, gameState) ==
    [puzzleId    |-> puzzle.id,
     moves       |-> gameState.moves,
     timeSeconds |-> IF gameState.completionTime = Undefined
                        \/ gameState.completionTime = Defined(0)
                     THEN 0 ELSE gameState.completionTime[1]]

\* variant: the rating of the results screen is always computed locally
gameResultOf_local(answer, gameState, puzzle) ==
    [starRating |-> calculateStarRating(gameState.moveCount, puzzle.optimalMoves)]

\* setGameResult of lines 67-70 and 74-77: the rating of the answer, or the
\* local one when the request failed
gameResultOf(answer, gameState, puzzle) ==
    IF answer.outcome = "failed"
    THEN [starRating |-> calculateStarRating(gameState.moveCount, puzzle.optimalMoves)]
    ELSE [starRating |-> answer.starRating]

\* what the request of a completed attempt can come back with: accepted and
\* rated by submitSolution from the length of the list, rejected (the player
\* had solved the puzzle) with rating 1, or failed
Answers(puzzle, payload) ==
    {[outcome |-> "accepted",
      starRating |-> calculateStarRating(Len(payload.moves), puzzle.optimalMoves)],
     [outcome |-> "rejected", starRating |-> 1],
     [outcome |-> "failed", starRating |-> 0]}

\* the effect of Celebration on [active]: setTimeout when it turns true,
\* clearTimeout in the cleanup
celebrationTimer(timer, before, after) ==
    IF after.showCelebration = before.showCelebration THEN timer
    ELSE IF after.showCelebration THEN "set"
    ELSE IF timer = "set" THEN "cleared"
    ELSE timer

\* a puzzle whose ships stay in the 3 x 3 corner of the board, fenced by
\* asteroids, so that every slide is short; red starts at `red`
PenPuzzle(red) ==
    [id |-> 6, date |-> "2025-01-06",
     ships |-> <<Ship("red", red.x, red.y), Ship("blue", 1, 1)>>,
     obstacles |-> <<Asteroid(3, 0), Asteroid(3, 1), Asteroid(3, 2),
                     Asteroid(0, 3), Asteroid(1, 3), Asteroid(2, 3)>>,
     astronaut |-> Pos(2, 0),
     optimalMoves |-> IF red = Pos(2, 0) THEN 0 ELSE 1]

\* the loaded puzzle: one that red solves in one move, and one whose red
\* ship starts on the astronaut, which any effective move completes
ClientPuzzles == {PenPuzzle(Pos(0, 0)), PenPuzzle(Pos(2, 0))}

\* the puzzle has loaded and its effect has run: setGameState(createGameState(puzzle))
InitClient ==
    \E puzzle \in ClientPuzzles :
        ui = [mounted        |-> TRUE,
              puzzle         |-> puzzle,
              gameState      |-> createGameState(puzzle, now),
              selectedShip   |-> NoShip,
              closure        |-> [gameState |-> createGameState(puzzle, now),
                                  selectedShip |-> NoShip],
              pending        |-> <<>>,
              events         |-> 0,
              lastEvent      |-> [type |-> "load", afterCompletion |-> FALSE],
              firstCompleted |-> Undefined,
              showCelebration |-> FALSE,
              showResults    |-> FALSE,
              gameResult     |-> Undefined,
              submitting     |-> FALSE,
              hasSubmittedRef |-> FALSE,
              submitted      |-> <<>>,
              submittedState |-> Undefined,
              answer         |-> Undefined,
              timer          |-> "none"]

\* an event handler ran and queued `updates`
Handled(type, updates) ==
    /\ ui.mounted
    /\ NoSyncUpdate(ui.pending)
    /\ ui.events < MaxClientEvents
    /\ ui' = [ui EXCEPT
                !.pending   = @ \o updates,
                !.events    = IF updates = <<>> THEN @ ELSE @ + 1,
                !.lastEvent = [type |-> type,
                               afterCompletion |-> ui.firstCompleted # Undefined]]
    /\ UNCHANGED <<gameVars, destVars, serverVars, pureVars, heapVars>>

KeyDown ==
    \E key \in Keys : Handled("keydown", handleKeyDown(ui.closure, key))

ClickDirection ==
    \E direction \in Directions :
        /\ ui.mounted
        /\ ~directionButtonDisabled(ui)
        /\ Handled("direction", moveShip(ui.closure, direction))

ClickShip ==
    /\ ui.mounted
    /\ \E i \in 1..Len(ui.gameState.ships) :
          Handled("ship", selectShip(ui.gameState.ships[i].color))

ClickReset ==
    /\ ui.mounted
    /\ ~resetButtonDisabled(ui)
    /\ Handled("reset", reset(ui.closure))

\* the close button of the results screen, shown when showResults && gameResult
CloseResults ==
    /\ ui.mounted
    /\ ui.showResults
    /\ ui.gameResult # Undefined
    /\ Handled("close", <<setState("showResults", FALSE)>>)

\* variant: the catch block only logs, a failed request sets no result
ServerAnswer_failureSetsNoResult ==
    /\ ui.mounted
    /\ ui.submitted # <<>>
    /\ ui.answer = Undefined
    /\ \E answer \in Answers(ui.puzzle, ui.submitted[Len(ui.submitted)]) :
          ui' = [ui EXCEPT
                    !.answer  = Defined(answer),
                    !.pending = @ \o
                        (IF answer.outcome = "failed" THEN <<>>
                         ELSE <<setStateAsync("gameResult",
                                  Defined(gameResultOf(answer, ui.submittedState[1],
                                                       ui.puzzle)))>>)
                        \o <<setStateAsync("submitting", FALSE)>>]
    /\ UNCHANGED <<gameVars, destVars, serverVars, pureVars, heapVars>>

\* the request of line 61 settles; lines 67-70 or 74-77, then line 79
ServerAnswer ==
    /\ ui.mounted
    /\ ui.submitted # <<>>
    /\ ui.answer = Undefined
    /\ \E answer \in Answers(ui.puzzle, ui.submitted[Len(ui.submitted)]) :
          ui' = [ui EXCEPT
                    !.answer  = Defined(answer),
                    !.pending = @ \o
                        <<setStateAsync("gameResult",
                              Defined(gameResultOf(answer, ui.submittedState[1],
                                                   ui.puzzle))),
                          setStateAsync("submitting", FALSE)>>]
    /\ UNCHANGED <<gameVars, destVars, serverVars, pureVars, heapVars>>

\* the timer of Celebration fires: onCompleteRef.current?.(), which is
\* handleCelebrationComplete
CelebrationTimeout ==
    /\ ui.mounted
    /\ ui.timer = "set"
    /\ ui' = [ui EXCEPT
                !.timer   = "fired",
                !.pending = @ \o <<setStateAsync("showCelebration", FALSE),
                                   setStateAsync("showResults", TRUE)>>]
    /\ UNCHANGED <<gameVars, destVars, serverVars, pureVars, heapVars>>

\* the queued updates are rendered and committed; the effects run: the
\* callbacks and the keydown listener are re-created, the submit effect and
\* the effect of Celebration run when their dependencies changed
Render ==
    /\ ui.mounted
    /\ ui.pending # <<>>
    /\ \E before \in {ReactState(ui)} :
       \E next \in {applyUpdates(before, ui.pending, now)} :
       \E submit \in {submitEffectRuns(before, next, ui.hasSubmittedRef)} :
           ui' = [ui EXCEPT
                    !.gameState       = next.gameState,
                    !.selectedShip    = next.selectedShip,
                    !.showCelebration = next.showCelebration,
                    !.showResults     = next.showResults,
                    !.gameResult      = next.gameResult,
                    !.submitting      = next.submitting,
                    !.pending         = IF submit
                                        THEN <<setState("showCelebration", TRUE),
                                               setState("submitting", TRUE)>>
                                        ELSE <<>>,
                    !.hasSubmittedRef = @ \/ submit,
                    !.submitted       = IF submit
                                        THEN Append(@, solutionPayload(ui.puzzle,
                                                           next.gameState))
                                        ELSE @,
                    !.submittedState  = IF submit THEN Defined(next.gameState) ELSE @,
                    !.answer          = IF submit THEN Undefined ELSE @,
                    !.timer           = celebrationTimer(@, before, next),
                    !.closure         = captureClosure(ui.closure, next),
                    !.firstCompleted  = IF @ = Undefined /\ next.gameState.completed
                                        THEN Defined(next.gameState)
                                        ELSE @]
    /\ UNCHANGED <<gameVars, destVars, serverVars, pureVars, heapVars>>

----------------------------------------------------------------------------
(* The specifications *)

Init ==
    /\ InitGame
    /\ dcall = NoCall
    /\ ServerIdle
    /\ PureIdle
    /\ HeapIdle
    /\ ClientIdle

Next == ApplyMove \/ Reset \/ Tick

Spec == Init /\ [][Next]_vars

InitDestSpec ==
    /\ InitDest
    /\ GameIdle
    /\ ServerIdle
    /\ PureIdle
    /\ HeapIdle
    /\ ClientIdle

NextDest == CallCalculateDestination

SpecDest == InitDestSpec /\ [][NextDest]_vars

InitFieldSpec ==
    /\ InitField
    /\ GameIdle
    /\ ServerIdle
    /\ PureIdle
    /\ HeapIdle
    /\ ClientIdle

SpecField == InitFieldSpec /\ [][NextDest]_vars

InitDestSizesSpec ==
    /\ InitDestOff \/ InitDestSized
    /\ GameIdle
    /\ ServerIdle
    /\ PureIdle
    /\ HeapIdle
    /\ ClientIdle

SpecDestSizes == InitDestSizesSpec /\ [][NextDest]_vars

InitSubmit ==
    /\ players = {}
    /\ solutions = {}
    /\ workload = "concurrent"
    /\ puzzles = {}
    /\ reqs = [r \in 1..NumReqs |-> IdleReq]
    /\ GameIdle
    /\ dcall = NoCall
    /\ PureIdle
    /\ HeapIdle
    /\ ClientIdle

NextSubmit ==
    \/ Receive
    \/ GetOrCreatePlayer
    \/ InsertPlayer
    \/ HasSolvedPlayerId
    \/ HasSolvedSelect
    \/ GetPuzzleAndReplay
    \/ GetPlayerDbId
    \/ InsertSolution
    \/ UpdatePlayerStats
    \/ Reject

SpecSubmit == InitSubmit /\ [][NextSubmit]_vars

InitValidate ==
    /\ players = {}
    /\ solutions = {}
    /\ workload = "single"
    /\ puzzles = {}
    /\ reqs = [r \in 1..1 |-> IdleReq]
    /\ GameIdle
    /\ dcall = NoCall
    /\ PureIdle
    /\ HeapIdle
    /\ ClientIdle

SpecValidate == InitValidate /\ [][NextSubmit]_vars

InitCounted ==
    /\ players = {}
    /\ solutions = {}
    /\ workload = "counted"
    /\ puzzles = {}
    /\ reqs = [r \in 1..NumReqs |-> IdleReq]
    /\ GameIdle
    /\ dcall = NoCall
    /\ PureIdle
    /\ HeapIdle
    /\ ClientIdle

SpecCounted == InitCounted /\ [][NextSubmit]_vars

InitWinSpec ==
    /\ InitWin
    /\ GameIdle
    /\ dcall = NoCall
    /\ ServerIdle
    /\ HeapIdle
    /\ ClientIdle

NextWin == CallCheckWin

SpecWin == InitWinSpec /\ [][NextWin]_vars

InitRatingSpec ==
    /\ InitRating
    /\ GameIdle
    /\ dcall = NoCall
    /\ ServerIdle
    /\ HeapIdle
    /\ ClientIdle

NextRating == CallCalculateStarRating

InitHeapSpec ==
    /\ GameIdle
    /\ InitHeap
    /\ dcall = NoCall
    /\ ServerIdle
    /\ PureIdle
    /\ ClientIdle

NextHeap == HeapApplyMove \/ HeapReset \/ HeapEdit

SpecHeap == InitHeapSpec /\ [][NextHeap]_vars

InitClientSpec ==
    /\ GameIdle
    /\ InitClient
    /\ dcall = NoCall
    /\ ServerIdle
    /\ PureIdle
    /\ HeapIdle

NextClient ==
    \/ KeyDown
    \/ ClickDirection
    \/ ClickShip
    \/ ClickReset
    \/ CloseResults
    \/ ServerAnswer
    \/ CelebrationTimeout
    \/ Render

SpecClient == InitClientSpec /\ [][NextClient]_vars

\* the scheduler of React runs a pending render, the request settles, the
\* timer fires
SpecClientLive ==
    /\ SpecClient
    /\ WF_vars(Render)
    /\ WF_vars(ServerAnswer)
    /\ WF_vars(CelebrationTimeout)

InitPlayersSpec ==
    /\ GameIdle
    /\ InitPlayers
    /\ dcall = NoCall
    /\ HeapIdle
    /\ ClientIdle

NextPlayers == GetOrCreatePlayerSelect \/ GetOrCreatePlayerInsert \/ CallUpdatePlayerStats

SpecPlayers == InitPlayersSpec /\ [][NextPlayers]_vars

InitPuzzlesSpec ==
    /\ GameIdle
    /\ InitPuzzles
    /\ dcall = NoCall
    /\ PureIdle
    /\ HeapIdle
    /\ ClientIdle

NextPuzzles == CreatePuzzle \/ SeedGetPuzzleByDate \/ SeedCreatePuzzle

SpecPuzzles == InitPuzzlesSpec /\ [][NextPuzzles]_vars

InitShareSpec ==
    /\ GameIdle
    /\ InitShare
    /\ dcall = NoCall
    /\ ServerIdle
    /\ HeapIdle
    /\ ClientIdle

NextShare == CallGenerateShareText

SpecShare == InitShareSpec /\ [][NextShare]_vars

SpecRating == InitRatingSpec /\ [][NextRating]_vars

----------------------------------------------------------------------------
(* Vocabulary of the properties *)

OnBoard(pos, n) == pos.x \in 0..(n - 1) /\ pos.y \in 0..(n - 1)

AsteroidCells(obstacles) ==
    {obstacles[i].position : i \in {j \in 1..Len(obstacles) : obstacles[j].type = "asteroid"}}

FieldEdges(obstacles) ==
    {<<obstacles[i].position, obstacles[i].edge>> :
        i \in {j \in 1..Len(obstacles) : obstacles[j].type = "forceField"}}

OtherShipCells(ships, color) ==
    {ships[i].position : i \in {j \in 1..Len(ships) : ships[j].color # color}}

Opposite(d) ==
    CASE d = "up" -> "down" [] d = "down" -> "up"
      [] d = "left" -> "right" [] d = "right" -> "left"

\* the cell k steps from p in direction d; (0,0) is the top-left corner
At(p, d, k) ==
    CASE d = "up"    -> Pos(p.x, p.y - k)
      [] d = "down"  -> Pos(p.x, p.y + k)
      [] d = "left"  -> Pos(p.x - k, p.y)
      [] d = "right" -> Pos(p.x + k, p.y)

\* the single-cell step from a to b in direction d is open for a ship of `color`
CanEnter(a, b, d, color, ships, obstacles, n) ==
    /\ OnBoard(b, n)
    /\ b \notin AsteroidCells(obstacles)
    /\ b \notin OtherShipCells(ships, color)
    /\ <<a, d>> \notin FieldEdges(obstacles)
    /\ <<b, Opposite(d)>> \notin FieldEdges(obstacles)

\* the numbers k such that each of the first k steps is open
FreeSteps(p, d, color, ships, obstacles, n) ==
    {k \in 0..n : \A j \in 1..k :
        CanEnter(At(p, d, j - 1), At(p, d, j), d, color, ships, obstacles, n)}

MaxOf(S) == CHOOSE k \in S : \A m \in S : m <= k

ValidLayout(puzzle) ==
    /\ \A i \in 1..Len(puzzle.ships) :
          /\ OnBoard(puzzle.ships[i].position, BoardSize)
          /\ puzzle.ships[i].position \notin AsteroidCells(puzzle.obstacles)
    /\ \A i, j \in 1..Len(puzzle.ships) :
          i # j => puzzle.ships[i].position # puzzle.ships[j].position

RedOnAstronaut(ships, astronaut) ==
    \E i \in 1..Len(ships) : ships[i].color = "red" /\ ships[i].position = astronaut

WellFormed(r) == reqs[r].pc = "done" /\ reqs[r].response.status \notin {400, 401}

\* move m cannot change anything in a state with these ships: its colour is
\* not among them, or the first step of its slide is closed
NoOpAt(ships, obstacles, m) ==
    \A i \in 1..Len(ships) :
        ships[i].color = m.ship =>
            ~CanEnter(ships[i].position, At(ships[i].position, m.direction, 1),
                      m.direction, m.ship, ships, obstacles, BoardSize)

\* the list without its k-th element
Without(l, k) == SubSeq(l, 1, k - 1) \o SubSeq(l, k + 1, Len(l))

\* the indices of the force fields of an obstacle list
FieldIndices(obstacles) ==
    {i \in 1..Len(obstacles) : obstacles[i].type = "forceField"}

IsAsteroidObstacle(o) == o.type = "asteroid"

\* a slide from p in direction d meets the boundary of the field on side e
\* of cell c: it heads out of c through e, or into c from the neighbour
CrossesBoundary(p, d, c, e, n) ==
    \/ d = e /\ \E j \in 0..n : At(p, d, j) = c
    \/ d = Opposite(e) /\ \E j \in 0..n : At(p, d, j) = At(c, e, 1)

----------------------------------------------------------------------------
(* Properties *)

\* C1: from a puzzle whose ships are on the board, on pairwise distinct cells
\* and off the asteroid cells, after any applyMove / resetGameState calls
\* every ship is within [0,15] on both axes, no ship is on an asteroid cell
\* and no two ships share a cell.
C1_ShipsOnFreeDistinctCells ==
    ValidLayout(state.puzzle) =>
        /\ \A i \in 1..Len(state.ships) :
              /\ state.ships[i].position.x \in 0..15
              /\ state.ships[i].position.y \in 0..15
              /\ state.ships[i].position \notin AsteroidCells(state.puzzle.obstacles)
        /\ \A i, j \in 1..Len(state.ships) :
              i # j => state.ships[i].position # state.ships[j].position

\* two moves played, the last one stopped a ship right next to another ship
C1_Witness ==
    /\ ValidLayout(state.puzzle)
    /\ last.op = "applyMove"
    /\ state.moveCount >= 2
    /\ state # last.before
    /\ At(state.ships[findIndex(state.ships, last.ship)].position, last.direction, 1)
          \in OtherShipCells(state.ships, last.ship)

\* C2: in every reachable game state, of every puzzle, completed is true
\* exactly when the red ship's position equals puzzle.astronaut.
C2_CompletedIffRedOnAstronaut ==
    state.completed <=> RedOnAstronaut(state.ships, state.puzzle.astronaut)

\* C3: moveCount equals the length of the moves list in every reachable state.
C3_MoveCountIsLength ==
    state.moveCount = Len(state.moves)

\* a reset that followed two counted moves
C3_Witness ==
    /\ last.op = "reset"
    /\ last.before.moveCount = 2
    /\ Len(last.before.moves) = 2
    /\ state.moveCount = 0

\* C4: calculateDestination returns the cell k steps from the ship in the given
\* direction, k being the largest number such that each of the k steps enters
\* a cell that is on the board, not an asteroid, not held by a ship of another
\* colour, and crosses no force-field edge (k = 0: the original position);
\* with nothing in the way that is the board edge, and with an asteroid or
\* another ship first met at distance n it is the cell at distance n - 1.
C4_DestinationIsFarthestFreeCell ==
    dcall.ret # Undefined =>
        LET p     == dcall.ship.position
            d     == dcall.direction
            n     == dcall.boardSize
            free  == FreeSteps(p, d, dcall.ship.color, dcall.ships, dcall.obstacles, n)
            dest  == dcall.ret[1]
        IN  /\ dest = At(p, d, MaxOf(free))
            /\ (MaxOf(free) = 0 => dest = p)
            /\ (dcall.obstacles = <<>> /\ Len(dcall.ships) = 1)
                  => (OnBoard(dest, n) /\ ~OnBoard(At(dest, d, 1), n))
            /\ \A k \in 1..n :
                  ( /\ (k - 1) \in free
                    /\ At(p, d, k) \in AsteroidCells(dcall.obstacles)
                                       \cup OtherShipCells(dcall.ships, dcall.ship.color) )
                  => dest = At(p, d, k - 1)

\* the ship slid at least one cell and stopped right before the other ship
C4_Witness ==
    /\ dcall.ret # Undefined
    /\ dcall.ret[1] # dcall.ship.position
    /\ At(dcall.ret[1], dcall.direction, 1)
          \in OtherShipCells(dcall.ships, dcall.ship.color)

\* C5: for an existing player who has not yet solved an existing puzzle,
\* submitSolution returns valid = true exactly when replaying the submitted
\* moves from createGameState(puzzle) leaves the red ship on the astronaut.
C5_ValidIffReplayEndsOnAstronaut ==
    \A r \in DOMAIN reqs :
        ( /\ WellFormed(r)
          /\ ~reqs[r].alreadySolved
          /\ getPuzzleById(reqs[r].puzzleId) # <<>> )
        => LET puzzle == getPuzzleById(reqs[r].puzzleId)[1]
               final  == replay(createGameState(puzzle, now), reqs[r].moves, now)
           IN  /\ reqs[r].response.status = 200
               /\ reqs[r].response.valid
                     <=> RedOnAstronaut(final.ships, puzzle.astronaut)

\* a list that reaches the astronaut and then leaves it was rejected
C5_Witness ==
    \E r \in DOMAIN reqs :
        /\ WellFormed(r)
        /\ reqs[r].puzzleId = 1
        /\ reqs[r].moves = <<Mv("red", "right"), Mv("red", "down")>>
        /\ reqs[r].response.status = 200
        /\ ~reqs[r].response.valid

\* C6: however the database steps of the submissions interleave, at most one
\* submission per (player, puzzle) returns valid = true and at most one
\* solution row exists for the pair.
C6_AtMostOneAcceptedSolution ==
    \A u \in Users(workload), pid \in PuzzleIds(workload) :
        /\ Cardinality({r \in DOMAIN reqs :
                           /\ reqs[r].pc = "done"
                           /\ reqs[r].discordUserId = u
                           /\ reqs[r].puzzleId = pid
                           /\ reqs[r].response.valid}) <= 1
        /\ Cardinality({row \in solutions :
                           /\ <<row.player_id>> = getPlayerDbId(players, u)
                           /\ row.puzzle_id = pid}) <= 1

\* two finished solving submissions of one player for one puzzle
C6_Witness ==
    \E r1, r2 \in DOMAIN reqs :
        /\ r1 # r2
        /\ WellFormed(r1) /\ WellFormed(r2)
        /\ reqs[r1].discordUserId = reqs[r2].discordUserId
        /\ reqs[r1].puzzleId = 1 /\ reqs[r2].puzzleId = 1
        /\ reqs[r1].moves = <<Mv("red", "right")>>
        /\ reqs[r2].moves = <<Mv("red", "right")>>
        /\ reqs[r1].response.valid
        /\ ~reqs[r2].response.valid

\* C7: a submission for a (player, puzzle) pair that already has a solution
\* row is answered 200 with valid = false, never with HTTP 500.
C7_DuplicateIsRejectedNotError ==
    \A r \in DOMAIN reqs :
        ( /\ WellFormed(r)
          /\ ~reqs[r].response.valid
          /\ \E row \in solutions :
                /\ <<row.player_id>> = getPlayerDbId(players, reqs[r].discordUserId)
                /\ row.puzzle_id = reqs[r].puzzleId )
        => reqs[r].response.status = 200

\* C8: applyMove for a ship whose slide resolves to its current position
\* returns the game state unchanged (ships, moves, moveCount, completed,
\* completionTime, startTime).
C8_BlockedMoveLeavesStateUnchanged ==
    ( /\ last.op = "applyMove"
      /\ findIndex(last.before.ships, last.ship) # 0
      /\ LET ship == last.before.ships[findIndex(last.before.ships, last.ship)]
         IN  calculateDestination(ship, last.direction, last.before.ships,
                                  last.before.puzzle.obstacles, BoardSize)
                = ship.position )
    => /\ state.ships = last.before.ships
       /\ state.moves = last.before.moves
       /\ state.moveCount = last.before.moveCount
       /\ state.completed = last.before.completed
       /\ state.completionTime = last.before.completionTime
       /\ state.startTime = last.before.startTime

\* after one counted move, the red ship was pushed against a force field
C8_Witness ==
    /\ last.op = "applyMove"
    /\ state.puzzle = BlockedPuzzle
    /\ last.ship = "red"
    /\ last.direction = "down"
    /\ last.before.moveCount = 1
    /\ state.ships[1].position = Pos(1, 0)
    /\ <<Pos(1, 1), "up">> \in FieldEdges(state.puzzle.obstacles)

\* C9: applyMove with a ship colour that is not among the state's ships
\* returns the state unchanged.
C9_UnknownShipLeavesStateUnchanged ==
    ( /\ last.op = "applyMove"
      /\ \A i \in 1..Len(last.before.ships) : last.before.ships[i].color # last.ship )
    => state = last.before

\* after one counted move, a move was asked of a colour the puzzle lacks
C9_Witness ==
    /\ last.op = "applyMove"
    /\ \A i \in 1..Len(last.before.ships) : last.before.ships[i].color # last.ship
    /\ last.before.moveCount = 1

\* C10: resetGameState returns a state whose ships equal the puzzle's initial
\* layout, with no moves, moveCount 0, completed false and no completionTime,
\* and with the startTime and puzzle of the input state.
C10_ResetRestoresInitialLayout ==
    last.op = "reset" =>
        /\ state.ships = last.before.puzzle.ships
        /\ state.moves = <<>>
        /\ state.moveCount = 0
        /\ state.completed = FALSE
        /\ state.completionTime = Undefined
        /\ state.startTime = last.before.startTime
        /\ state.puzzle = last.before.puzzle

\* a completed attempt was reset after the clock had advanced
C10_Witness ==
    /\ last.op = "reset"
    /\ last.before.completed
    /\ last.before.completionTime # Undefined
    /\ last.before.ships # last.before.puzzle.ships
    /\ now > state.startTime

----------------------------------------------------------------------------
(* C11: checkWin returns true exactly when the red ship of the list stands *)
(* on the astronaut's cell; a ship of another colour on that cell does not *)
(* make it true, and a list without a red ship gives false.                *)

C11_CheckWinIffRedOnAstronaut ==
    (pcall.fn = "checkWin" /\ pcall.ret # Undefined) =>
        /\ pcall.ret[1] \in BOOLEAN
        /\ pcall.ret[1] = RedOnAstronaut(pcall.ships, pcall.astronaut)
        /\ (\A i \in 1..Len(pcall.ships) : pcall.ships[i].color # "red")
                => pcall.ret[1] = FALSE

C11_Witness ==
    /\ pcall.fn = "checkWin"
    /\ pcall.ret = Defined(FALSE)
    /\ \A i \in 1..Len(pcall.ships) : pcall.ships[i].color # "red"
    /\ \E i \in 1..Len(pcall.ships) : pcall.ships[i].position = pcall.astronaut

----------------------------------------------------------------------------
(* C12: for moves >= optimal and d = moves - optimal, calculateStarRating  *)
(* returns 5 when d = 0, 4 when d = 1, 3 when d is 2 or 3, 2 when d is 4   *)
(* or 5, and 1 when d >= 6.                                                *)

C12_StarRatingTable ==
    (/\ pcall.fn = "calculateStarRating"
     /\ pcall.ret # Undefined
     /\ pcall.moves >= pcall.optimal) =>
        LET d == pcall.moves - pcall.optimal
        IN  /\ d = 0 => pcall.ret[1] = 5
            /\ d = 1 => pcall.ret[1] = 4
            /\ d \in {2, 3} => pcall.ret[1] = 3
            /\ d \in {4, 5} => pcall.ret[1] = 2
            /\ d >= 6 => pcall.ret[1] = 1

C12_Witness ==
    /\ pcall.fn = "calculateStarRating"
    /\ pcall.moves = pcall.optimal + 3
    /\ pcall.optimal > 0
    /\ pcall.ret = Defined(3)

----------------------------------------------------------------------------
(* C13: a force field on side e of cell C, with N the neighbour of C in    *)
(* direction e, blocks the boundary between C and N both ways: a slide in  *)
(* direction e never gets past C and stops on C when it reaches it, a      *)
(* slide in the opposite direction never gets past N and stops on N when   *)
(* it reaches it. Every field of the call is looked at, so the field       *)
(* declared on C and the one declared on N's facing side are both covered. *)

C13_ForceFieldBlocksBothWays ==
    dcall.ret # Undefined =>
        LET p   == dcall.ship.position
            d   == dcall.direction
            n   == dcall.boardSize
            ret == dcall.ret[1]
        IN  \A i \in FieldIndices(dcall.obstacles) :
                LET e    == dcall.obstacles[i].edge
                    C    == dcall.obstacles[i].position
                    N    == At(C, e, 1)
                    near == IF d = e THEN C ELSE N
                IN  d \in {e, Opposite(e)} =>
                        \A j \in 0..n :
                            At(p, d, j) = near =>
                                /\ \E m \in 0..j : ret = At(p, d, m)
                                /\ j \in FreeSteps(p, d, dcall.ship.color, dcall.ships,
                                                   dcall.obstacles, n)
                                       => ret = near

\* a slide of at least one cell stopped by a field declared on the far cell
C13_Witness ==
    /\ dcall.ret # Undefined
    /\ dcall.ret[1] # dcall.ship.position
    /\ \E i \in FieldIndices(dcall.obstacles) :
          LET C == dcall.obstacles[i].position
          IN  /\ dcall.direction = Opposite(dcall.obstacles[i].edge)
              /\ dcall.ret[1] = At(C, dcall.obstacles[i].edge, 1)
              /\ OnBoard(C, dcall.boardSize)
              /\ C \notin AsteroidCells(dcall.obstacles)
              /\ C \notin OtherShipCells(dcall.ships, dcall.ship.color)

----------------------------------------------------------------------------
(* C14: a force field never stops a slide that does not cross its own      *)
(* boundary: when no field of the call has its boundary on the line of the *)
(* slide, the ship stops where it would stop with the fields taken away.   *)

C14_ForceFieldOnlyBlocksItsBoundary ==
    dcall.ret # Undefined =>
        LET p == dcall.ship.position
            d == dcall.direction
            n == dcall.boardSize
            asteroidsOnly == SelectSeq(dcall.obstacles, IsAsteroidObstacle)
        IN  (\A i \in FieldIndices(dcall.obstacles) :
                ~CrossesBoundary(p, d, dcall.obstacles[i].position,
                                 dcall.obstacles[i].edge, n))
            => dcall.ret[1] =
                  At(p, d, MaxOf(FreeSteps(p, d, dcall.ship.color, dcall.ships,
                                           asteroidsOnly, n)))

\* the ship went through a cell that carries a field on a perpendicular side
C14_Witness ==
    /\ dcall.ret # Undefined
    /\ \E i \in FieldIndices(dcall.obstacles) :
          /\ dcall.obstacles[i].edge \notin {dcall.direction, Opposite(dcall.direction)}
          /\ \E j, m \in 1..dcall.boardSize :
                /\ j < m
                /\ At(dcall.ship.position, dcall.direction, j) = dcall.obstacles[i].position
                /\ At(dcall.ship.position, dcall.direction, m) = dcall.ret[1]

----------------------------------------------------------------------------
(* C16: for a mover on the board, not on an asteroid and not sharing its   *)
(* cell with another ship, the returned position is never an asteroid cell *)
(* and never the position of a ship of another colour.                     *)

C16_DestinationIsNotOccupied ==
    (/\ dcall.ret # Undefined
     /\ OnBoard(dcall.ship.position, dcall.boardSize)
     /\ dcall.ship.position \notin AsteroidCells(dcall.obstacles)
     /\ dcall.ship.position \notin OtherShipCells(dcall.ships, dcall.ship.color)) =>
        /\ dcall.ret[1] \notin AsteroidCells(dcall.obstacles)
        /\ dcall.ret[1] \notin OtherShipCells(dcall.ships, dcall.ship.color)

\* a valid mover that slid and stopped next to an asteroid
C16_Witness ==
    /\ dcall.ret # Undefined
    /\ OnBoard(dcall.ship.position, dcall.boardSize)
    /\ dcall.ship.position \notin AsteroidCells(dcall.obstacles)
    /\ dcall.ship.position \notin OtherShipCells(dcall.ships, dcall.ship.color)
    /\ dcall.ret[1] # dcall.ship.position
    /\ At(dcall.ret[1], dcall.direction, 1) \in AsteroidCells(dcall.obstacles)

----------------------------------------------------------------------------
(* C15: for a ship on the board, whatever the direction, the ships, the    *)
(* obstacles and the board side (at least 1), both coordinates of the      *)
(* returned position lie in 0 .. boardSize - 1.                            *)

C15_DestinationIsOnBoard ==
    (/\ dcall.ret # Undefined
     /\ dcall.boardSize >= 1
     /\ OnBoard(dcall.ship.position, dcall.boardSize)) =>
        /\ dcall.ret[1].x \in 0..(dcall.boardSize - 1)
        /\ dcall.ret[1].y \in 0..(dcall.boardSize - 1)

\* a slide to the far edge of a board of another side than the enumerated one
C15_Witness ==
    /\ dcall.ret # Undefined
    /\ dcall.boardSize \notin {DestBoardSize, BoardSize}
    /\ OnBoard(dcall.ship.position, dcall.boardSize)
    /\ dcall.ret[1] # dcall.ship.position
    /\ dcall.direction = "right"
    /\ dcall.ret[1].x = dcall.boardSize - 1

----------------------------------------------------------------------------
(* C18: the loop of calculateDestination ends on every input, after a      *)
(* number of iterations that is one more than the cells travelled; for a   *)
(* ship that starts on the board it runs at most boardSize iterations.     *)

C18_LoopRunsAtMostBoardSizeTimes ==
    dcall.ret # Undefined =>
        LET iterations == slideIterations(dcall.ship.position, dcall.ship,
                              dcall.direction, dcall.ships, dcall.obstacles,
                              dcall.boardSize)
        IN  /\ iterations \in 1..(dcall.boardSize + 1)
            /\ dcall.ret[1] = At(dcall.ship.position, dcall.direction, iterations - 1)
            /\ OnBoard(dcall.ship.position, dcall.boardSize)
                   => iterations <= dcall.boardSize

\* a ship on one edge that crossed the whole board: boardSize iterations
C18_Witness ==
    /\ dcall.ret # Undefined
    /\ dcall.boardSize > 1
    /\ OnBoard(dcall.ship.position, dcall.boardSize)
    /\ slideIterations(dcall.ship.position, dcall.ship, dcall.direction,
                       dcall.ships, dcall.obstacles, dcall.boardSize) = dcall.boardSize
    /\ dcall.ret[1] = At(dcall.ship.position, dcall.direction, dcall.boardSize - 1)

----------------------------------------------------------------------------
(* C17: the moveCount of applyMove's result is the moveCount of its input  *)
(* or exactly one more; it is one more exactly when a ship of the given    *)
(* colour exists and the move changed its position.                        *)

C17_MoveCountStepsByAtMostOne ==
    last.op = "applyMove" =>
        LET before == last.before
            named  == {i \in 1..Len(before.ships) : before.ships[i].color = last.ship}
            moved  == \E i \in named :
                          state.ships[i].position # before.ships[i].position
            canSlide == \E i \in named :
                          MaxOf(FreeSteps(before.ships[i].position, last.direction,
                                          last.ship, before.ships,
                                          before.puzzle.obstacles, BoardSize)) > 0
        IN  /\ state.moveCount \in {before.moveCount, before.moveCount + 1}
            /\ (state.moveCount = before.moveCount + 1) <=> moved
            /\ moved <=> canSlide

\* a second counted move
C17_Witness ==
    /\ last.op = "applyMove"
    /\ last.before.moveCount = 1
    /\ state.moveCount = 2
    /\ \E i \in 1..Len(state.ships) :
          /\ state.ships[i].color = last.ship
          /\ state.ships[i].position # last.before.ships[i].position

----------------------------------------------------------------------------
(* C19: the ship list of the puzzle is never changed by playing, not even  *)
(* by an in-place edit of a ship position of a game state; and a call or   *)
(* an edit on one of two game states created from the same puzzle leaves   *)
(* the ships, moves and flags of the other as they were.                   *)

C19_PuzzleAndOtherAttemptUntouched ==
    (heap # <<>>) =>
        /\ shipsAt(heap, heap[cur.puzzle].ships) = cur.original.ships
        /\ puzzleAt(heap, cur.puzzle) = cur.original
        /\ hlast.op \in {"applyMove", "resetGameState", "edit"} =>
               \A b \in DOMAIN cur.attempts :
                   b # hlast.attempt =>
                       stateAt(heap, cur.attempts[b]) = hlast.before[b]

\* a state whose ship position was edited in place has then been reset
C19_Witness ==
    /\ heap # <<>>
    /\ hlast.op = "resetGameState"
    /\ \E i \in 1..Len(hlast.before[hlast.attempt].ships) :
          /\ hlast.before[hlast.attempt].ships[i].position.x = 99
          /\ stateAt(heap, hlast.input).ships[i].position.x = 99
    /\ stateAt(heap, hlast.ret).ships = cur.original.ships

----------------------------------------------------------------------------
(* C20: applyMove never changes the game state it is given: after the call *)
(* its ships, moves, moveCount, completed and completionTime have the      *)
(* values they had before, whether or not the move changed anything.       *)

C20_ApplyMoveLeavesInputUntouched ==
    (heap # <<>> /\ hlast.op = "applyMove") =>
        LET given == stateAt(heap, hlast.input)
            was   == hlast.before[hlast.attempt]
        IN  /\ given.ships = was.ships
            /\ given.moves = was.moves
            /\ given.moveCount = was.moveCount
            /\ given.completed = was.completed
            /\ given.completionTime = was.completionTime

\* a move that changed something: a new state is returned, the given one stands
C20_Witness ==
    /\ heap # <<>>
    /\ hlast.op = "applyMove"
    /\ hlast.ret # hlast.input
    /\ stateAt(heap, hlast.ret).moveCount = 2
    /\ stateAt(heap, hlast.input).moveCount = 1
    /\ stateAt(heap, hlast.ret).ships # stateAt(heap, hlast.input).ships

----------------------------------------------------------------------------
(* C21: when applyMove changes a position, exactly the named ship moves,   *)
(* along the axis and in the sense of the direction; every other ship      *)
(* keeps its position and the ship order is kept; the move is appended as  *)
(* the last element of moves, the earlier moves staying in order; puzzle   *)
(* and startTime are unchanged.                                            *)

C21_OnlyNamedShipMovesAndMoveIsAppended ==
    (last.op = "applyMove" /\ state.ships # last.before.ships) =>
        LET before == last.before
        IN  /\ Len(state.ships) = Len(before.ships)
            /\ \A i \in 1..Len(before.ships) :
                  /\ state.ships[i].color = before.ships[i].color
                  /\ before.ships[i].color # last.ship
                        => state.ships[i].position = before.ships[i].position
                  /\ before.ships[i].color = last.ship
                        => \E k \in 1..BoardSize :
                              state.ships[i].position =
                                  At(before.ships[i].position, last.direction, k)
            /\ Len(state.moves) = Len(before.moves) + 1
            /\ state.moves[Len(state.moves)] =
                  [ship |-> last.ship, direction |-> last.direction]
            /\ \A j \in 1..Len(before.moves) : state.moves[j] = before.moves[j]
            /\ state.puzzle = before.puzzle
            /\ state.startTime = before.startTime

\* a second move, of another ship than the first, changed a position
C21_Witness ==
    /\ last.op = "applyMove"
    /\ state.ships # last.before.ships
    /\ Len(last.before.moves) = 1
    /\ last.before.moves[1].ship # last.ship
    /\ Len(state.ships) > 1

----------------------------------------------------------------------------
(* C22: replay depends only on (puzzle, move sequence): an attempt that    *)
(* was asked a sequence of moves since its creation or reset, and was not  *)
(* itself edited, has the ships, moves, moveCount and completed flag that  *)
(* the sequence gives on a fresh game state, and the verdict of the        *)
(* validation, whatever was done to the other attempt in between; two      *)
(* attempts asked the same sequence end equal.                             *)

C22_ReplayDependsOnlyOnPuzzleAndMoves ==
    (heap # <<>>) =>
        /\ \A b \in DOMAIN cur.attempts :
              ~cur.edited[b] =>
                  LET got   == stateAt(heap, cur.attempts[b])
                      fresh == replay(createGameState(cur.original, now),
                                      cur.requested[b], now)
                  IN  /\ got.ships = fresh.ships
                      /\ got.moves = fresh.moves
                      /\ got.moveCount = fresh.moveCount
                      /\ got.completed = fresh.completed
                      /\ checkWin(got.ships, cur.original.astronaut)
                            = solves(cur.original, cur.requested[b], now)
        /\ \A a, b \in DOMAIN cur.attempts :
              (~cur.edited[a] /\ ~cur.edited[b]
                  /\ cur.requested[a] = cur.requested[b]) =>
                  LET sa == stateAt(heap, cur.attempts[a])
                      sb == stateAt(heap, cur.attempts[b])
                  IN  /\ sa.ships = sb.ships
                      /\ sa.moves = sb.moves
                      /\ sa.moveCount = sb.moveCount
                      /\ sa.completed = sb.completed

\* one attempt replayed a move that counts while the other was edited in place
C22_Witness ==
    /\ heap # <<>>
    /\ \E a, b \in DOMAIN cur.attempts :
          /\ cur.edited[a]
          /\ ~cur.edited[b]
          /\ Len(cur.requested[b]) = 1
          /\ stateAt(heap, cur.attempts[b]).moveCount = 1

----------------------------------------------------------------------------
(* C23: a no-op move in a submitted list does not change the verdict: when *)
(* the k-th move of the list is a no-op at that point of the replay (a     *)
(* blocked slide, or a colour that is not in the puzzle), the list gives   *)
(* the final ship positions of the list without it, and the submission is  *)
(* accepted exactly when the list without it solves the puzzle.            *)

C23_NoOpMovesDoNotChangeVerdict ==
    \A r \in DOMAIN reqs :
        ( /\ WellFormed(r)
          /\ ~reqs[r].alreadySolved
          /\ getPuzzleById(reqs[r].puzzleId) # <<>> )
        => LET puzzle == getPuzzleById(reqs[r].puzzleId)[1]
               fresh  == createGameState(puzzle, now)
               moves  == reqs[r].moves
           IN  \A k \in 1..Len(moves) :
                   NoOpAt(replay(fresh, SubSeq(moves, 1, k - 1), now).ships,
                          puzzle.obstacles, moves[k])
                   => /\ replay(fresh, moves, now).ships
                            = replay(fresh, Without(moves, k), now).ships
                      /\ reqs[r].response.valid
                            <=> RedOnAstronaut(
                                   replay(fresh, Without(moves, k), now).ships,
                                   puzzle.astronaut)

\* an accepted list that starts with a blocked slide
C23_Witness ==
    \E r \in DOMAIN reqs :
        /\ WellFormed(r)
        /\ reqs[r].puzzleId = 1
        /\ reqs[r].moves = <<Mv("red", "up"), Mv("red", "right")>>
        /\ reqs[r].response.status = 200
        /\ reqs[r].response.valid

----------------------------------------------------------------------------
(* C24: in the controller useGame, once the game state is completed no     *)
(* further move is applied to it: whatever keys are pressed and buttons    *)
(* clicked afterwards, the ships, moves and moveCount stay those of the    *)
(* first completed state.                                                  *)

C24_NoMoveAfterCompletion ==
    (ui.mounted /\ ui.firstCompleted # Undefined) =>
        /\ ui.gameState.ships = ui.firstCompleted[1].ships
        /\ ui.gameState.moves = ui.firstCompleted[1].moves
        /\ ui.gameState.moveCount = ui.firstCompleted[1].moveCount
        /\ ui.gameState.completed

\* a key was pressed after the game was completed, with a ship selected
C24_Witness ==
    /\ ui.mounted
    /\ ui.firstCompleted # Undefined
    /\ ui.selectedShip # NoShip
    /\ ui.lastEvent = [type |-> "keydown", afterCompletion |-> TRUE]
    /\ ui.events < MaxClientEvents

----------------------------------------------------------------------------
(* C25: a submitSolution call that meets one of the three rejections (the  *)
(* player has solved the puzzle, the puzzle id is unknown, the replay does *)
(* not end with red on the astronaut) returns valid = false instead of     *)
(* throwing, and the rejected calls write nothing: the solution rows and   *)
(* the four counters of every player are those of the accepted calls.      *)

\* the calls of a player that got past the replay check and the INSERT
Recorded(u) ==
    {r \in DOMAIN reqs :
        /\ reqs[r].discordUserId = u
        /\ \/ reqs[r].pc = "updatePlayerStats"
           \/ reqs[r].pc = "done" /\ reqs[r].response.valid}

\* the calls of a player that returned valid = true
Accepted(u) ==
    {r \in Recorded(u) : reqs[r].pc = "done"}

C25_RejectionReturnsAndWritesNothing ==
    /\ \A r \in DOMAIN reqs :
          ( /\ WellFormed(r)
            /\ \/ reqs[r].alreadySolved
               \/ getPuzzleById(reqs[r].puzzleId) = <<>>
               \/ LET puzzle == getPuzzleById(reqs[r].puzzleId)[1]
                  IN  ~RedOnAstronaut(replay(createGameState(puzzle, now),
                                             reqs[r].moves, now).ships,
                                      puzzle.astronaut) )
          => /\ reqs[r].response.status = 200
             /\ ~reqs[r].response.valid
             /\ reqs[r].response.stats # <<>>
    /\ \A row \in players :
          LET n == Cardinality(Accepted(row.discord_user_id))
          IN  /\ row.games_played = n
              /\ row.games_won = n
              /\ row.current_streak = n
              /\ row.max_streak = n
    /\ \A row \in solutions :
          \E u \in Users(workload) :
             /\ <<row.player_id>> = getPlayerDbId(players, u)
             /\ \E r \in Recorded(u) :
                   /\ row.puzzle_id = reqs[r].puzzleId
                   /\ row.moves = reqs[r].moves
                   /\ row.time_seconds = reqs[r].timeSeconds
    /\ Cardinality(solutions)
          = Cardinality(UNION {Recorded(u) : u \in Users(workload)})

\* a player's first call was accepted and the second, for the same puzzle,
\* found the stored solution and was rejected
C25_Witness ==
    \E r1, r2 \in DOMAIN reqs :
        /\ r1 # r2
        /\ reqs[r1].discordUserId = reqs[r2].discordUserId
        /\ reqs[r1].pc = "done" /\ reqs[r1].response.valid
        /\ reqs[r2].pc = "done" /\ reqs[r2].alreadySolved
        /\ reqs[r2].response.status = 200
        /\ ~reqs[r2].response.valid
        /\ \E row \in players :
              /\ row.discord_user_id = reqs[r1].discordUserId
              /\ row.games_played = 1

----------------------------------------------------------------------------
(* C26: after any sequence of updatePlayerStats calls on a newly created   *)
(* player, gamesPlayed is the number of calls, gamesWon the number of won  *)
(* calls, currentStreak the length of the trailing run of won calls and    *)
(* maxStreak the length of the longest run of won calls; so maxStreak >=   *)
(* currentStreak and gamesWon <= gamesPlayed.                              *)

\* the won flags of the updatePlayerStats calls made for player u, in order
RECURSIVE WonFlagsIn(_, _)
WonFlagsIn(calls, u) ==
    IF calls = <<>> THEN <<>>
    ELSE IF calls[Len(calls)].discordUserId = u
         THEN Append(WonFlagsIn(SubSeq(calls, 1, Len(calls) - 1), u),
                     calls[Len(calls)].won)
         ELSE WonFlagsIn(SubSeq(calls, 1, Len(calls) - 1), u)

WonFlags(u) == WonFlagsIn(pcall.calls, u)

\* h[i..j] are all won
AllWon(h, i, j) == \A k \in i..j : h[k]

TrailingRun(h) ==
    MaxOf({n \in 0..Len(h) : AllWon(h, Len(h) - n + 1, Len(h))})

LongestRun(h) ==
    MaxOf({n \in 0..Len(h) :
              \E i \in 1..(Len(h) - n + 1) : AllWon(h, i, i + n - 1)})

C26_StatsFollowTheCallHistory ==
    workload = "players" =>
        \A row \in players :
            LET h == WonFlags(row.discord_user_id)
                stats == rowToPlayerStats(row)
            IN  /\ stats.gamesPlayed = Len(h)
                /\ stats.gamesWon = Cardinality({k \in 1..Len(h) : h[k]})
                /\ stats.currentStreak = TrailingRun(h)
                /\ stats.maxStreak = LongestRun(h)
                /\ stats.maxStreak >= stats.currentStreak
                /\ stats.gamesWon <= stats.gamesPlayed

\* won, lost, won: the longest run is behind and equals the trailing run
C26_Witness ==
    /\ workload = "players"
    /\ \E u \in PlayerIds :
          /\ WonFlags(u) = <<TRUE, FALSE, TRUE>>
          /\ getPlayerByDiscordId(players, u) # <<>>
          /\ getPlayerByDiscordId(players, u)[1].maxStreak = 1

----------------------------------------------------------------------------
(* C27: however getOrCreatePlayer calls for one Discord id interleave,     *)
(* there is never more than one player row for the id and exactly one once *)
(* a call has returned; a call that finds or meets an existing row returns *)
(* that player and changes none of its counters.                           *)

RowsOf(u) == {row \in players : row.discord_user_id = u}

C27_OneRowPerIdAndNoReset ==
    /\ [](workload = "players" =>
            /\ \A u \in PlayerIds : Cardinality(RowsOf(u)) <= 1
            /\ \A r \in DOMAIN reqs :
                  reqs[r].pc = "done" =>
                     /\ Cardinality(RowsOf(reqs[r].discordUserId)) = 1
                     /\ reqs[r].ret # <<>>
                     /\ reqs[r].ret[1].discordUserId = reqs[r].discordUserId)
    /\ [][workload = "players" =>
            \A r \in DOMAIN reqs :
               ( /\ reqs[r].pc # "done"
                 /\ reqs'[r].pc = "done"
                 /\ RowsOf(reqs'[r].discordUserId) # {} )
               => /\ players' = players
                  /\ reqs'[r].ret
                        = getPlayerByDiscordId(players, reqs'[r].discordUserId)]_vars

\* a call that found no row has its INSERT meet the row of another call,
\* which has two games by then
C27_Witness ==
    /\ workload = "players"
    /\ \E r1, r2 \in DOMAIN reqs :
          /\ r1 # r2
          /\ reqs[r1].pc = "done" /\ reqs[r2].pc = "done"
          /\ reqs[r1].discordUserId = reqs[r2].discordUserId
          /\ reqs[r1].ret[1].gamesPlayed = 0
          /\ reqs[r2].ret[1].gamesPlayed = 2
          /\ reqs[r2].ret[1].currentStreak = 1

----------------------------------------------------------------------------
(* C28: however createPuzzle calls and seed runs interleave, the table     *)
(* puzzles never holds two rows for one date; a createPuzzle for a date    *)
(* that has a row fails and leaves the table as it was; a seed run creates *)
(* no puzzle when a row for today exists, whether it saw the row in its    *)
(* lookup or met it at its INSERT.                                         *)

PuzzlesOn(date) == {row \in puzzles : row.date = date}

C28_AtMostOnePuzzlePerDate ==
    /\ [](workload = "puzzles" =>
            \A date \in Dates : Cardinality(PuzzlesOn(date)) <= 1)
    /\ [][workload = "puzzles" =>
            \A r \in DOMAIN reqs :
               ( /\ reqs[r].pc # "done"
                 /\ reqs'[r].pc = "done"
                 /\ PuzzlesOn(reqs'[r].puzzle[1].date) # {} )
               => /\ puzzles' = puzzles
                  /\ reqs'[r].outcome # "created"
                  /\ reqs'[r].op = "createPuzzle" => reqs'[r].outcome = "threw"]_vars

\* a seed run found no row for today, a createPuzzle call then created the
\* row of that date, and the INSERT of the seed run met it
C28_Witness ==
    /\ workload = "puzzles"
    /\ \E r1, r2 \in DOMAIN reqs :
          /\ reqs[r1].pc = "done" /\ reqs[r1].op = "seed"
          /\ reqs[r1].outcome = "threw"
          /\ reqs[r2].pc = "done" /\ reqs[r2].op = "createPuzzle"
          /\ reqs[r2].outcome = "created"
          /\ reqs[r2].puzzle[1].date = reqs[r1].puzzle[1].date
          /\ PuzzlesOn(reqs[r1].puzzle[1].date)
                = {[id |-> 1, date |-> reqs[r2].puzzle[1].date,
                    board_layout |-> [ships     |-> reqs[r2].puzzle[1].ships,
                                      obstacles |-> reqs[r2].puzzle[1].obstacles,
                                      astronaut |-> reqs[r2].puzzle[1].astronaut],
                    optimal_moves |-> reqs[r2].puzzle[1].optimalMoves]}

----------------------------------------------------------------------------
(* C29: the share text has four lines: the puzzle identifier; exactly five *)
(* star glyphs, the first starRating of them filled and the others empty;  *)
(* "Moves: " with moveCount/optimalMoves; "Time: " with M:SS where M is    *)
(* floor(timeSeconds / 60) and SS is timeSeconds mod 60 in exactly two     *)
(* digits.                                                                 *)

\* the lines of a text: the runs of characters between its line breaks
RECURSIVE Lines(_)
Lines(text) ==
    IF \A k \in 1..Len(text) : text[k] # Newline THEN <<text>>
    ELSE LET k == CHOOSE i \in 1..Len(text) :
                     text[i] = Newline /\ \A j \in 1..(i - 1) : text[j] # Newline
         IN  <<SubSeq(text, 1, k - 1)>> \o Lines(SubSeq(text, k + 1, Len(text)))

DigitValue(ch) == CHOOSE v \in 0..9 : DigitChars[v + 1] = ch

IsNumeral(str) ==
    /\ str # <<>>
    /\ \A k \in 1..Len(str) : \E v \in 0..9 : DigitChars[v + 1] = str[k]

\* the number a sequence of decimal digits denotes
RECURSIVE NumeralValue(_)
NumeralValue(str) ==
    IF str = <<>> THEN 0
    ELSE 10 * NumeralValue(SubSeq(str, 1, Len(str) - 1)) + DigitValue(str[Len(str)])

StartsWith(str, prefix) ==
    Len(str) >= Len(prefix) /\ SubSeq(str, 1, Len(prefix)) = prefix

After(str, prefix) == SubSeq(str, Len(prefix) + 1, Len(str))

\* str is left, then the character sep, then right, and sep occurs once
SplitsAt(str, sep, left, right) ==
    /\ str = left \o <<sep>> \o right
    /\ \A k \in 1..Len(left) : left[k] # sep
    /\ \A k \in 1..Len(right) : right[k] # sep

----------------------------------------------------------------------------
(* C30: in every game state reached from createGameState by applyMove and  *)
(* resetGameState calls, applying the recorded moves in order to a fresh   *)
(* createGameState of the same puzzle gives the same ship positions, the   *)
(* same moveCount and the same completed flag; so the move list of a       *)
(* completed state passes the replay check of submitSolution.              *)

C30_RecordedMovesReproduceTheState ==
    LET replayed == replay(createGameState(state.puzzle, now), state.moves, now)
    IN  /\ replayed.ships = state.ships
        /\ replayed.moveCount = state.moveCount
        /\ replayed.completed = state.completed
        /\ state.completed =>
              RedOnAstronaut(replayed.ships, state.puzzle.astronaut)

\* a completed state whose list holds a move of another ship and the
\* winning move, reached after the clock advanced
C30_Witness ==
    /\ last.op = "applyMove"
    /\ state.completed
    /\ Len(state.moves) = 2
    /\ state.moves[1].ship # "red"
    /\ now > state.startTime

----------------------------------------------------------------------------
(* C31: for every accepted submission, the move_count of the solution row  *)
(* and the count given to calculateStarRating are the moveCount of the     *)
(* replayed game state, so that no-op entries of the submitted list are    *)
(* not counted.                                                            *)

C31_StoredCountIsReplayedCount ==
    \A r \in DOMAIN reqs :
        (WellFormed(r) /\ reqs[r].response.valid) =>
            LET puzzle   == getPuzzleById(reqs[r].puzzleId)[1]
                replayed == replay(createGameState(puzzle, now), reqs[r].moves, now)
            IN  /\ \A row \in solutions :
                      ( /\ <<row.player_id>>
                              = getPlayerDbId(players, reqs[r].discordUserId)
                        /\ row.puzzle_id = reqs[r].puzzleId )
                      => row.move_count = replayed.moveCount
                /\ reqs[r].response.starRating
                      = calculateStarRating(replayed.moveCount, puzzle.optimalMoves)

----------------------------------------------------------------------------
(* C32: in every game state reached by createGameState, applyMove and      *)
(* resetGameState, completionTime is defined exactly when completed is     *)
(* true; after a move that completes the game it is the whole number of    *)
(* seconds between the start time, which resets leave alone, and the time  *)
(* of the move.                                                            *)

\* the whole seconds in ms milliseconds
WholeSeconds(ms) ==
    CHOOSE q \in 0..ms : q * 1000 <= ms /\ ms < (q + 1) * 1000

C32_CompletionTimeIffCompleted ==
    /\ []( /\ state.completionTime # Undefined <=> state.completed
           /\ state.startTime = 1 )
    /\ [][(state' # state /\ state'.completed)
             => state'.completionTime
                   = Defined(WholeSeconds(now - state'.startTime))]_vars

\* the completing move was made more than a second after the start
C32_Witness ==
    /\ last.op = "applyMove"
    /\ state # last.before
    /\ state.completed
    /\ now - state.startTime >= 1000
    /\ state.completionTime = Defined(1)

----------------------------------------------------------------------------
(* C33: once no submitSolution call is in flight, whatever the order of    *)
(* the database steps was, the gamesPlayed and the gamesWon of each player *)
(* are the number of solution rows stored for that player.                 *)

SolutionsOf(row) == {sol \in solutions : sol.player_id = row.id}

C33_StatsCountSolutionRows ==
    (\A r \in DOMAIN reqs : reqs[r].pc \in {"idle", "done"}) =>
        \A row \in players :
            /\ rowToPlayerStats(row).gamesPlayed = Cardinality(SolutionsOf(row))
            /\ rowToPlayerStats(row).gamesWon = Cardinality(SolutionsOf(row))

\* two calls of one player, for two puzzles, were both accepted; the one
\* answered last saw both games in its statistics
C33_Witness ==
    /\ \A r \in DOMAIN reqs : reqs[r].pc = "done"
    /\ \E r1, r2 \in DOMAIN reqs :
          /\ reqs[r1].discordUserId = reqs[r2].discordUserId
          /\ reqs[r1].puzzleId # reqs[r2].puzzleId
          /\ reqs[r1].response.valid /\ reqs[r2].response.valid
          /\ reqs[r1].response.stats[1].gamesPlayed = 1
          /\ reqs[r2].response.stats[1].gamesPlayed = 2
          /\ \E row \in players :
                /\ row.discord_user_id = reqs[r1].discordUserId
                /\ row.games_played = 2
                /\ Cardinality(SolutionsOf(row)) = 2


\* C34: for one loaded puzzle useGame calls apiClient.submitSolution at most
\* once, whatever moves, resets and renders occur, and the move list it
\* sends is the move list of the state in which completion was first
\* observed.
C34_SubmitsOnceTheFirstCompletedMoves ==
    /\ Len(ui.submitted) <= 1
    /\ ui.submitted # <<>> =>
          /\ ui.firstCompleted # Undefined
          /\ ui.submitted[1].moves = ui.firstCompleted[1].moves
          /\ ui.submitted[1].puzzleId = ui.puzzle.id

\* the solution was sent, and renders of clicks made after it were committed
C34_Witness ==
    /\ Len(ui.submitted) = 1
    /\ Len(ui.submitted[1].moves) = 2
    /\ ui.lastEvent.type = "ship"
    /\ ui.lastEvent.afterCompletion
    /\ ui.pending = <<>>
    /\ ui.answer # Undefined

\* the results screen of Game.tsx is rendered
ResultsShown == ui.showResults /\ ui.gameResult # Undefined

\* the completed state was committed and the celebration has not started
JustCompleted == ui.gameState.completed /\ ui.timer = "none"

\* C35: after the game state becomes completed the results screen is
\* eventually shown: gameResult eventually is non-null whether the request
\* succeeds, is rejected or fails, showResults becomes true only after the
\* celebration timer fired, and showCelebration and showResults are never
\* true together.
C35_ResultsEventuallyShown ==
    /\ JustCompleted ~> ResultsShown
    /\ \A outcome \in {"accepted", "rejected", "failed"} :
          (ui.answer # Undefined /\ ui.answer[1].outcome = outcome)
              ~> ui.gameResult # Undefined
    /\ [](~(ui.showCelebration /\ ui.showResults))
    /\ [][(~ui.showResults /\ ui'.showResults)
             => (ui.timer = "fired" /\ ~ui'.showCelebration)]_vars

\* the results screen is shown after a request that failed
C35_Witness ==
    /\ ResultsShown
    /\ ui.answer # Undefined
    /\ ui.answer[1].outcome = "failed"
    /\ ui.timer = "fired"
    /\ ~ui.showCelebration

\* C36: whenever the results screen is shown for a completed attempt, the
\* star rating it displays is calculateStarRating(gameState.moveCount,
\* puzzle.optimalMoves), whatever the server answered.
C36_DisplayedRatingIsLocalRating ==
    ResultsShown =>
        ui.gameResult[1].starRating
            = calculateStarRating(ui.gameState.moveCount, ui.puzzle.optimalMoves)

\* C37: for a fixed optimum, calculateStarRating(moves, optimal) does not
\* increase with moves over all move counts from 0, those below the optimum
\* included, and its result is one of 1..5.
C37_RatingNeverIncreasesWithMoves ==
    (pcall.fn = "calculateStarRating" /\ pcall.ret # Undefined) =>
        /\ pcall.ret[1] \in 1..5
        /\ \A more \in pcall.moves..MaxRatingMoves :
              calculateStarRating(more, pcall.optimal) <= pcall.ret[1]
====
